---- MODULE Spec2Model ----
(***************************************************************************)
(* gpubsub: a daemon that pulls Pub/Sub messages and runs commands.        *)
(*                                                                         *)
(* The model covers onStart / onStop (the coordinator, the subscription    *)
(* runners and the shutdown broadcast), the Receive callback, and          *)
(* subData.receiveMessage / subIf.eval / subCommand.perform (the dispatch  *)
(* of one message).                                                        *)
(*                                                                         *)
(* Strings whose characters matter (attribute values, patterns, command    *)
(* elements) are sequences of one-character strings.  A rule node is       *)
(* identified by its index path ([]int in the code); the subscription's    *)
(* root command is identified by the empty path.                           *)
(***************************************************************************)
EXTENDS Integers, Sequences, FiniteSets, TLC

\* ------------------------------------------------------------------ bounds

\* Subscriptions in a configuration.
NSubs == 2
\* Messages the bus delivers in one run of the daemon (one callback each).
MaxMsgs == 1
\* Times the service manager calls Stop (each spawns `go p.stop()`).
MaxSvcStops == 1
\* Bytes the kernel buffers in a pipe nobody reads (65536 on Linux), scaled
\* to the payloads of the bounded inputs.
PipeCapacity == 4

\* ------------------------------------------------------------- vocabulary

dataViaNone == "none"
dataViaPipe == "pipe"
dataViaFile == "file"
dataViaVar == "var"

subIfFieldNone == "none"
subIfFieldMetaKey == "metakey"

\* Character strings used by the bounded inputs.
StrEmpty == <<>>
StrA == <<"a">>
StrBA == <<"b", "a">>
StrSpace == <<" ">>
StrSh == <<"s", "h">>
StrCat == <<"c", "a", "t">>

\* ----------------------------------------------------------- pure helpers

RECURSIVE TrimLeft(_)
TrimLeft(s) == IF s # <<>> /\ Head(s) = " " THEN TrimLeft(Tail(s)) ELSE s

RECURSIVE TrimRight(_)
TrimRight(s) ==
    IF s # <<>> /\ s[Len(s)] = " " THEN TrimRight(SubSeq(s, 1, Len(s) - 1)) ELSE s

\* strings.TrimSpace
TrimSpace(s) == TrimRight(TrimLeft(s))

\* Mutant: only a command without elements is empty.
CommandEmptyOnlyNil(sc) == Len(sc) = 0

\* subCommand.empty
CommandEmpty(sc) == Len(sc) = 0 \/ TrimSpace(sc[1]) = <<>>

\* regexp.MatchString for the patterns of the bounded inputs: a literal,
\* either anchored (^lit$) or not (unanchored substring search).
MatchString(pat, value) ==
    IF pat.anchored
    THEN value = pat.lit
    ELSE \E i \in 1..(Len(value) + 1) :
            /\ i + Len(pat.lit) - 1 <= Len(value)
            /\ SubSeq(value, i, i + Len(pat.lit) - 1) = pat.lit

\* msg.Attributes[key]: a missing key reads as the empty string.
AttrValue(msg, key) ==
    IF key \in DOMAIN msg.Attributes THEN msg.Attributes[key] ELSE <<>>

\* The test of subIf.eval: the field source resolves and the pattern matches.
NodeMatches(node, msg) ==
    /\ node.FieldType = subIfFieldMetaKey
    /\ MatchString(node.Pattern, AttrValue(msg, node.FieldName))

\* iff.Then (sd.Ifs for the empty path): the child paths of p, in list order.
NumChildren(tree, p) ==
    Cardinality({q \in DOMAIN tree :
                    Len(q) = Len(p) + 1 /\ SubSeq(q, 1, Len(p)) = p})

\* Mutant: the loop over the children stops after the first one.
ThenFirstOnly(tree, p) ==
    [i \in 1..(IF NumChildren(tree, p) > 0 THEN 1 ELSE 0) |-> Append(p, i - 1)]

\* Mutant: the children are visited last to first.
ThenReversed(tree, p) ==
    [i \in 1..NumChildren(tree, p) |-> Append(p, NumChildren(tree, p) - i)]

Then(tree, p) == [i \in 1..NumChildren(tree, p) |-> Append(p, i - 1)]

\* path.Join(os.TempDir(), "gpubsub_message_" + msg.ID)
DataFilePath(id) == <<"gpubsub_message_", id>>

\* The alphabet of base64.StdEncoding; the character of value v is
\* B64Chars[v + 1].
B64Chars ==
    <<"A", "B", "C", "D", "E", "F", "G", "H", "I", "J", "K", "L", "M",
      "N", "O", "P", "Q", "R", "S", "T", "U", "V", "W", "X", "Y", "Z",
      "a", "b", "c", "d", "e", "f", "g", "h", "i", "j", "k", "l", "m",
      "n", "o", "p", "q", "r", "s", "t", "u", "v", "w", "x", "y", "z",
      "0", "1", "2", "3", "4", "5", "6", "7", "8", "9", "+", "/">>

B64Pad == "="

\* base64.StdEncoding.EncodeToString: three bytes give four characters, a
\* last group of one or two bytes is padded.
RECURSIVE EncodeToString(_)
EncodeToString(b) ==
    IF Len(b) = 0 THEN <<>>
    ELSE IF Len(b) = 1
    THEN <<B64Chars[(b[1] \div 4) + 1], B64Chars[((b[1] % 4) * 16) + 1],
           B64Pad, B64Pad>>
    ELSE IF Len(b) = 2
    THEN <<B64Chars[(b[1] \div 4) + 1],
           B64Chars[((b[1] % 4) * 16 + (b[2] \div 16)) + 1],
           B64Chars[((b[2] % 16) * 4) + 1], B64Pad>>
    ELSE <<B64Chars[(b[1] \div 4) + 1],
           B64Chars[((b[1] % 4) * 16 + (b[2] \div 16)) + 1],
           B64Chars[((b[2] % 16) * 4 + (b[3] \div 64)) + 1],
           B64Chars[(b[3] % 64) + 1]>>
         \o EncodeToString(SubSeq(b, 4, Len(b)))

\* The names perform looks for in the arguments.
GSUB_SUB == <<"G", "S", "U", "B", "_", "S", "U", "B">>
GSUB_TOPIC == <<"G", "S", "U", "B", "_", "T", "O", "P", "I", "C">>
GSUB_DATA == <<"G", "S", "U", "B", "_", "D", "A", "T", "A">>
GSUB_META_ == <<"G", "S", "U", "B", "_", "M", "E", "T", "A", "_">>

\* strings.ReplaceAll(metak, " ", "_")
SpacesToUnderscores(k) == [i \in 1..Len(k) |-> IF k[i] = " " THEN "_" ELSE k[i]]

\* key is a prefix of text[i..]
HasPrefixAt(text, i, key) ==
    /\ i + Len(key) - 1 <= Len(text)
    /\ SubSeq(text, i, i + Len(key) - 1) = key

\* The lookup of the Replacer at position i: of the names that start there,
\* the one that comes first in the argument order (0 when none does).  The
\* empty old strings that `make([]string, 2*len(replaces))` puts in front
\* of the pairs match everywhere and replace nothing with nothing.
Lookup(text, i, order) ==
    LET hits == {j \in 1..Len(order) : HasPrefixAt(text, i, order[j])}
    IN  IF hits = {} THEN 0 ELSE CHOOSE j \in hits : \A h \in hits : j <= h

\* strings.NewReplacer(arr...).Replace(text): left to right, no overlapping
\* matches; `order` is the order in which `range replaces` gave the names.
RECURSIVE ReplaceFrom(_, _, _, _)
ReplaceFrom(text, i, replaces, order) ==
    IF i > Len(text) THEN <<>>
    ELSE LET j == Lookup(text, i, order)
         IN  IF j = 0
             THEN <<text[i]>> \o ReplaceFrom(text, i + 1, replaces, order)
             ELSE replaces[order[j]]
                  \o ReplaceFrom(text, i + Len(order[j]), replaces, order)

Replace(text, replaces, order) == ReplaceFrom(text, 1, replaces, order)

\* The orders in which a `range` over a map with the keys K may run.
RangeOrders(K) ==
    {o \in [1..Cardinality(K) -> K] : \A k \in K : \E i \in DOMAIN o : o[i] = k}

\* One name is a proper prefix of another: only then does the order of the
\* Replacer's arguments show in what it returns.
PrefixClash(K) ==
    \E a, b \in K : a # b /\ Len(a) <= Len(b) /\ SubSeq(b, 1, Len(a)) = a

RECURSIVE SomeOrder(_)
SomeOrder(K) ==
    IF K = {} THEN <<>>
    ELSE LET k == CHOOSE x \in K : TRUE IN <<k>> \o SomeOrder(K \ {k})

\* The orders of `range replaces` that perform can tell apart.
ReplaceOrders(K) == IF PrefixClash(K) THEN RangeOrders(K) ELSE {SomeOrder(K)}


\* ----------------------------------------------------------- bounded inputs

AllSubs == 1..NSubs
Slots == 1..MaxMsgs
SvcCallers == 1..MaxSvcStops

PatA == [anchored |-> TRUE, lit |-> StrA]        \* ^a$
PatSubA == [anchored |-> FALSE, lit |-> StrA]    \* a
PatEmpty == [anchored |-> TRUE, lit |-> StrEmpty] \* ^$

CmdNone == <<>>
CmdBlank == <<StrSpace>>
CmdSh == <<StrSh>>
CmdCat == <<StrCat>>

\* What the spawned program does with its standard input: `cat` reads it to
\* end-of-file before it exits, the other commands exit on their own.
ReadsStdinToEOF(sc) == TrimSpace(sc[1]) = StrCat

\* A command with arguments: the executable with blanks around it, the
\* payload alone, the payload twice inside a word, the subscription and its
\* topic, two attributes.
CmdEcho ==
    << <<" ">> \o StrSh \o <<" ">>,
       GSUB_DATA,
       <<"x">> \o GSUB_DATA \o GSUB_DATA,
       GSUB_SUB \o <<"/">> \o GSUB_TOPIC,
       GSUB_META_ \o <<"s", "e", "r", "v", "e", "r">> \o <<"=">>
           \o GSUB_META_ \o <<"a", "p", "p">> >>

\* A command that is told the topic.
CmdTopic == <<StrSh, GSUB_TOPIC>>

\* A command that is told where the payload is.
CmdData == <<StrSh, GSUB_DATA>>

\* A command that is told two attributes and the subscription.
CmdMeta ==
    <<StrSh,
      GSUB_META_ \o <<"a", "b">>,
      GSUB_META_ \o <<"m", "y", "_", "k", "e", "y">>,
      GSUB_SUB>>

\* A command whose executable is spelled like a variable.
CmdSelf == <<GSUB_SUB, GSUB_SUB>>

\* What validateSubsConfigIfs builds for a valid node: metakey set, pattern
\* compiled.
MetaNode(key, pat, cmd) ==
    [FieldType |-> subIfFieldMetaKey, FieldName |-> key, Pattern |-> pat,
     Command |-> cmd]

TreeNone == <<>>

\* The README's shape: a parent with an empty command and two children.
TreeReadme ==
    (<<0>> :> MetaNode("server", PatA, CmdNone))
    @@ (<<0, 0>> :> MetaNode("app", PatA, CmdSh))
    @@ (<<0, 1>> :> MetaNode("app", PatSubA, CmdSh))

\* Two roots, a chain of depth three, a blank command in the middle.
TreeDeep ==
    (<<0>> :> MetaNode("server", PatSubA, CmdSh))
    @@ (<<1>> :> MetaNode("app", PatEmpty, CmdSh))
    @@ (<<0, 0>> :> MetaNode("app", PatA, CmdBlank))
    @@ (<<0, 0, 0>> :> MetaNode("server", PatA, CmdSh))

\* Rule commands with arguments, under each other.
TreeArgs ==
    (<<0>> :> MetaNode("server", PatSubA, CmdSelf))
    @@ (<<0, 0>> :> MetaNode("app", PatSubA, CmdEcho))

\* One root with a command.
TreeOne == <<0>> :> MetaNode("server", PatSubA, CmdSh)

AttrKeys == {"server", "app"}
AttrMaps == UNION {[K -> {StrA, StrBA}] : K \in SUBSET AttrKeys}
MsgIds == {"m1"}
Payloads == {<<>>, <<104, 105>>, <<104, 101, 108, 108, 111>>}
Msgs == [ID : MsgIds, Data : Payloads, Attributes : AttrMaps]

NoMsg == [ID |-> "", Data |-> <<>>, Attributes |-> <<>>]

\* A test message as parseSubsConfig builds it.
TestMsg == [ID |-> "test_0", Data |-> <<104, 105>>, Attributes |-> ("server" :> StrA)]
TestMsg2 == [ID |-> "test_1", Data |-> <<>>, Attributes |-> ("app" :> StrBA)]

SubCfg(cmd, via, ifs, tests) ==
    [Command |-> cmd, PassDataVia |-> via, Ifs |-> ifs, Tests |-> tests]

\* The configurations the whole daemon is run with: a live one (a `file`
\* subscription with a rule, `pipe` subscriptions with a root command) and
\* one in which only the first subscription carries a test message.
LiveCfg ==
    [v \in AllSubs |->
        IF v = 1 THEN SubCfg(CmdSh, dataViaFile, TreeOne, <<>>)
                 ELSE SubCfg(CmdTopic, dataViaPipe, TreeNone, <<>>)]

TestCfg ==
    [v \in AllSubs |->
        IF v = 1 THEN SubCfg(CmdSh, dataViaNone, TreeOne, <<TestMsg, TestMsg2>>)
                 ELSE SubCfg(CmdSh, dataViaFile, TreeNone, <<>>)]

LifeCfgs == {LiveCfg, TestCfg}

\* The messages the bus delivers to the whole daemon.
LifeMsgs == {[ID |-> "m1", Data |-> <<104, 105>>, Attributes |-> ("server" :> StrA)]}

\* Subscriptions the dispatch of single messages is run with.
DispatchSubCfgs ==
    { SubCfg(cmd, via, ifs, <<>>) :
        cmd \in {CmdNone, CmdBlank, CmdSh, CmdCat, CmdEcho},
        via \in {dataViaNone, dataViaPipe, dataViaFile, dataViaVar},
        ifs \in {TreeNone, TreeReadme, TreeDeep, TreeArgs} }

\* The characters of the attribute keys.
KeyChars(k) ==
    CASE k = "server" -> <<"s", "e", "r", "v", "e", "r">>
      [] k = "app" -> <<"a", "p", "p">>
      [] k = "a" -> <<"a">>
      [] k = "ab" -> <<"a", "b">>
      [] k = "my key" -> <<"m", "y", " ", "k", "e", "y">>
      [] k = "my_key" -> <<"m", "y", "_", "k", "e", "y">>

\* "GSUB_META_" + strings.ReplaceAll(metak, " ", "_")
MetaName(k) == GSUB_META_ \o SpacesToUnderscores(KeyChars(k))

\* Two attribute keys give the same name: only then does the order of
\* `range msg.Attributes` show in the map.
NameClash(K) == \E a, b \in K : a # b /\ MetaName(a) = MetaName(b)

\* The orders of `range msg.Attributes` that the map can tell apart.
AttrOrders(K) == IF NameClash(K) THEN RangeOrders(K) ELSE {SomeOrder(K)}

\* sd.Sub of subscription v
SubName(v) == <<"sub", ToString(v)>>

\* hasTests of parseSubsConfig
HasTests(c) == \E v \in DOMAIN c : Len(c[v].Tests) > 0

\* scfg.Topic.ID() of subscription v
TopicOf(v) == <<"topic", ToString(v)>>

\* The shortest and the longest subscription name parseSubsConfig lets
\* through, as len() counts them.
MinNameLen == 3
MaxNameLen == 255

\* A character of two bytes in UTF-8.
TwoByteChars == {"é"}

\* len() of a Go string: its bytes.
ByteLen(name) ==
    Len(name) + Cardinality({i \in 1..Len(name) : name[i] \in TwoByteChars})

\* strings.Repeat
Repeat(c, n) == [i \in 1..n |-> c]

\* The names of the entries parseSubsConfig is run with: too short, just
\* long enough, the same with blanks around it, blanks around one letter,
\* the longest, one more than the longest, two characters of two bytes.
RawNames ==
    { <<"a", "b">>,
      <<"a", "b", "c">>,
      <<" ", "a", "b", "c", " ">>,
      <<" ", " ", "a", " ", " ">>,
      Repeat("x", MaxNameLen),
      Repeat("x", MaxNameLen + 1),
      <<"é", "é">> }

\* An entry of cfg.Subscriptions, as far as its name decides.
RawEntries ==
    [Name : RawNames, Disable : {FALSE}]
    \cup [Name : {<<"a", "b">>, <<"a", "b", "c">>}, Disable : {TRUE}]

\* The subscription lists of the configuration documents.
MaxEntries == 3
RawLists == UNION {[1..n -> RawEntries] : n \in 0..MaxEntries}

\* parseSubsConfig has not been called.
NoParse ==
    [pc |-> "none", entries |-> <<>>, i |-> 0, subz |-> {}, err |-> "",
     global |-> {}]

\* ------------------------------------------------------------------ state

VARIABLES
    cfg,          \* the subscriptions of the configuration file
    interactive,  \* serviceInteractive()
    client,       \* onStart's local `client` is not nil
    parse,        \* parseSubsConfig: its input, its position, its results
    pc,           \* where onStart is
    subz,         \* keys of the global map subz (empty until loaded)
    testing,      \* onStart's local `testing`
    topic,        \* subData.Topic per subscription
    cancellation, \* subData.Cancellation # nil, per subscription
    cancelled,    \* the runner's context is cancelled
    checked,      \* subscriptions the check loop has visited
    launched,     \* subscriptions the launch loop has visited
    wg,           \* the WaitGroup counter
    runner,       \* where each runner goroutine is
    once,         \* stopOnce: "fresh", "running" or "done"
    stopper,      \* where each onStop invocation is
    todo,         \* subscriptions the broadcast loop has yet to visit
    broadcasts,   \* how many times the body of stopOnce.Do has been entered
    cb,           \* Receive callbacks / test dispatches, per slot
    files,        \* the temporary directory: path -> content
    tcur          \* the test loop's position

vars == <<cfg, interactive, client, parse, pc, subz, testing, topic, cancellation, cancelled,
          checked, launched, wg, runner, once, stopper, todo, broadcasts,
          cb, files, tcur>>

lifeVars == <<pc, subz, testing, topic, cancellation, cancelled, checked,
              launched, wg, runner, once, stopper, todo, broadcasts, tcur>>

\* The invocations of onStop: the signal goroutine, each service Stop, and
\* the deferred call of each runner.
SigCaller == [k |-> "sig", i |-> 0]
SvcCaller(i) == [k |-> "svc", i |-> i]
RunCaller(v) == [k |-> "run", i |-> v]
Callers ==
    {SigCaller} \cup {SvcCaller(i) : i \in SvcCallers}
    \cup {RunCaller(v) : v \in AllSubs}

Ev(e, n, ok) == [e |-> e, n |-> n, ok |-> ok]

NoCb ==
    [kind |-> "none", sub |-> 0, msg |-> NoMsg, pc |-> "none", wrote |-> FALSE,
     result |-> "none", stack |-> <<>>, cur |-> <<>>, trace |-> <<>>,
     ack |-> <<>>, replaces |-> <<>>, argv |-> <<>>, ctxDone |-> <<>>]

NewCb(kind, v, m) ==
    [kind |-> kind, sub |-> v, msg |-> m, pc |-> "recv", wrote |-> FALSE,
     result |-> "none", stack |-> <<>>, cur |-> <<>>, trace |-> <<>>,
     ack |-> <<>>, replaces |-> <<>>, argv |-> <<>>, ctxDone |-> <<>>]

\* log.Fatal exits the process; in interactive mode main returns when
\* onStart does.
ProcessAlive == pc # "fatal" /\ ~(interactive /\ pc = "stopped")

InitCommon ==
    /\ client = FALSE
    /\ parse = NoParse
    /\ pc = "load"
    /\ subz = {}
    /\ testing = FALSE
    /\ topic = [v \in AllSubs |-> <<>>]
    /\ cancellation = [v \in AllSubs |-> FALSE]
    /\ cancelled = [v \in AllSubs |-> FALSE]
    /\ checked = {}
    /\ launched = {}
    /\ wg = 0
    /\ runner = [v \in AllSubs |-> "idle"]
    /\ once = "fresh"
    /\ stopper = [c \in Callers |-> "none"]
    /\ todo = {}
    /\ broadcasts = 0
    /\ cb = [s \in Slots |-> NoCb]
    /\ files = <<>>
    /\ tcur = [sub |-> 0, idx |-> 0]

Init ==
    /\ cfg \in LifeCfgs
    /\ interactive \in BOOLEAN
    /\ InitCommon


\* ------------------------------------------------- onStart (the coordinator)

\* ReadFile + parseSubsConfig succeed: the globals are assigned.
LoadConfig ==
    /\ pc = "load"
    /\ subz' = DOMAIN cfg
    /\ testing' = HasTests(cfg)
    /\ pc' = "client"
    /\ UNCHANGED <<cfg, interactive, client, parse, topic, cancellation, cancelled, checked,
                   launched, wg, runner, once, stopper, todo, broadcasts, cb,
                   files, tcur>>

\* The file cannot be read: log.Fatal.
LoadFatal ==
    /\ pc = "load"
    /\ pc' = "fatal"
    /\ UNCHANGED <<cfg, interactive, client, parse, subz, testing, topic, cancellation,
                   cancelled, checked, launched, wg, runner, once, stopper,
                   todo, broadcasts, cb, files, tcur>>

\* Mutant: the client and the checks do not depend on `testing`.
LiveStartupAlways(t) == TRUE

\* `if !testing`: the client is created and the subscriptions are checked
\* only when no subscription has test messages.
LiveStartup(t) == ~t

\* Credentials and pubsub.NewClient; neither the client nor the checks exist
\* in test mode.
StartClient ==
    /\ pc = "client"
    /\ client' = LiveStartup(testing)
    /\ pc' = IF LiveStartup(testing) THEN "check" ELSE "launch"
    /\ UNCHANGED <<cfg, interactive, parse, subz, testing, topic, cancellation,
                   cancelled, checked, launched, wg, runner, once, stopper,
                   todo, broadcasts, cb, files, tcur>>

\* Reading the credentials or creating the client fails: log.Fatal.
ClientFatal ==
    /\ pc = "client"
    /\ pc' = "fatal"
    /\ UNCHANGED <<cfg, interactive, client, parse, subz, testing, topic, cancellation,
                   cancelled, checked, launched, wg, runner, once, stopper,
                   todo, broadcasts, cb, files, tcur>>

\* Mutant: the check loop is left after its first subscription.
CheckLoopOverEarly(done, all) == done # {}

\* `for _, v := range subz` of the checks has visited every subscription.
CheckLoopOver(done, all) == done = all

\* One iteration of the check loop (map order): the subscription exists and
\* its topic is read.
CheckSub(v) ==
    /\ pc = "check"
    /\ v \in subz \ checked
    /\ topic' = [topic EXCEPT ![v] = TopicOf(v)]
    /\ checked' = checked \cup {v}
    /\ pc' = IF CheckLoopOver(checked', subz) THEN "launch" ELSE "check"
    /\ UNCHANGED <<cfg, interactive, client, parse, subz, testing, cancellation, cancelled,
                   launched, wg, runner, once, stopper, todo, broadcasts, cb,
                   files, tcur>>

\* sub.Exists fails or says no, or sub.Config fails: log.Fatal.
CheckFatal(v) ==
    /\ pc = "check"
    /\ v \in subz \ checked
    /\ pc' = "fatal"
    /\ UNCHANGED <<cfg, interactive, client, parse, subz, testing, topic, cancellation,
                   cancelled, checked, launched, wg, runner, once, stopper,
                   todo, broadcasts, cb, files, tcur>>

\* Mutant: the counter is not raised for a runner.
WgAddForgotten(n) == n

\* wg.Add(1)
WgAdd(n) == n + 1

\* One iteration of the launch loop (map order) in live mode: the
\* cancellation handle is stored, the counter raised, the runner started.
LaunchSub(v) ==
    /\ pc = "launch"
    /\ ~testing
    /\ v \in subz \ launched
    /\ cancellation' = [cancellation EXCEPT ![v] = TRUE]
    /\ wg' = WgAdd(wg)
    /\ runner' = [runner EXCEPT ![v] = "recv"]
    /\ launched' = launched \cup {v}
    /\ UNCHANGED <<cfg, interactive, client, parse, pc, subz, testing, topic, cancelled,
                   checked, once, stopper, todo, broadcasts, cb, files, tcur>>

\* One iteration of the launch loop in test mode: the handle is stored and
\* the test loop entered; no runner is started.
LaunchTests(v) ==
    /\ pc = "launch"
    /\ testing
    /\ v \in subz \ launched
    /\ cancellation' = [cancellation EXCEPT ![v] = TRUE]
    /\ tcur' = [sub |-> v, idx |-> 1]
    /\ pc' = "test"
    /\ UNCHANGED <<cfg, interactive, client, parse, subz, testing, topic, cancelled, checked,
                   launched, wg, runner, once, stopper, todo, broadcasts, cb,
                   files>>

\* v.receiveMessage(subctx, test.Message, logmsg) is called.
TestCall ==
    /\ pc = "test"
    /\ tcur.idx <= Len(cfg[tcur.sub].Tests)
    /\ cb' = [cb EXCEPT ![1] = NewCb("test", tcur.sub, cfg[tcur.sub].Tests[tcur.idx])]
    /\ pc' = "testwait"
    /\ UNCHANGED <<cfg, interactive, client, parse, subz, testing, topic, cancellation,
                   cancelled, checked, launched, wg, runner, once, stopper,
                   todo, broadcasts, files, tcur>>

\* receiveMessage has returned; its result is dropped.
TestReturn ==
    /\ pc = "testwait"
    /\ cb[1].pc = "returned"
    /\ cb' = [cb EXCEPT ![1].pc = "done"]
    /\ tcur' = [tcur EXCEPT !.idx = @ + 1]
    /\ pc' = "test"
    /\ UNCHANGED <<cfg, interactive, client, parse, subz, testing, topic, cancellation,
                   cancelled, checked, launched, wg, runner, once, stopper,
                   todo, broadcasts, files>>

\* The tests of this subscription are through: `continue`.
TestLoopEnd ==
    /\ pc = "test"
    /\ tcur.idx > Len(cfg[tcur.sub].Tests)
    /\ launched' = launched \cup {tcur.sub}
    /\ pc' = "launch"
    /\ UNCHANGED <<cfg, interactive, client, parse, subz, testing, topic, cancellation,
                   cancelled, checked, wg, runner, once, stopper, todo,
                   broadcasts, cb, files, tcur>>

\* The launch loop is over: the signal goroutine is started and onStart
\* reaches wg.Wait().
StartSignalWait ==
    /\ pc = "launch"
    /\ launched = subz
    /\ pc' = "wait"
    /\ UNCHANGED <<cfg, interactive, client, parse, subz, testing, topic, cancellation,
                   cancelled, checked, launched, wg, runner, once, stopper,
                   todo, broadcasts, cb, files, tcur>>

\* wg.Wait() returns
WgWaitReturns == wg = 0

\* log.Info("Stopped")
WaitReturn ==
    /\ pc = "wait"
    /\ WgWaitReturns
    /\ pc' = "stopped"
    /\ UNCHANGED <<cfg, interactive, client, parse, subz, testing, topic, cancellation,
                   cancelled, checked, launched, wg, runner, once, stopper,
                   todo, broadcasts, cb, files, tcur>>

\* ------------------------------------------------------------------ onStop

\* The signal goroutine reads SIGINT/SIGTERM and calls onStop.
SignalStop ==
    /\ ProcessAlive
    /\ pc \in {"wait", "stopped"}
    /\ stopper[SigCaller] = "none"
    /\ stopper' = [stopper EXCEPT ![SigCaller] = "enter"]
    /\ UNCHANGED <<cfg, interactive, client, parse, pc, subz, testing, topic, cancellation,
                   cancelled, checked, launched, wg, runner, once, todo,
                   broadcasts, cb, files, tcur>>

\* serviceImpl.Stop: `go p.stop()`, whenever the service manager asks.
ServiceStop(i) ==
    /\ ProcessAlive
    /\ ~interactive
    /\ stopper[SvcCaller(i)] = "none"
    /\ stopper' = [stopper EXCEPT ![SvcCaller(i)] = "enter"]
    /\ UNCHANGED <<cfg, interactive, client, parse, pc, subz, testing, topic, cancellation,
                   cancelled, checked, launched, wg, runner, once, todo,
                   broadcasts, cb, files, tcur>>

\* Mutant: a plain flag set at the end of the broadcast instead of a Once.
OnceFreshFlag == once # "done"

\* sync.Once: the function runs for the first caller only.
OnceFresh == once = "fresh"

\* stopOnce.Do for the first caller: it enters the function; `range subz`
\* reads the global map as it is now.
OnceDoFirst(c) ==
    /\ ProcessAlive
    /\ stopper[c] = "enter"
    /\ OnceFresh
    /\ once' = "running"
    /\ stopper' = [stopper EXCEPT ![c] = "exec"]
    /\ todo' = subz
    /\ broadcasts' = broadcasts + 1
    /\ UNCHANGED <<cfg, interactive, client, parse, pc, subz, testing, topic, cancellation,
                   cancelled, checked, launched, wg, runner, cb, files, tcur>>

\* stopOnce.Do for a later caller: it returns once the first call has
\* returned, and runs nothing.
OnceDoLater(c) ==
    /\ ProcessAlive
    /\ stopper[c] = "enter"
    /\ once = "done"
    /\ stopper' = [stopper EXCEPT ![c] = "ret"]
    /\ UNCHANGED <<cfg, interactive, client, parse, pc, subz, testing, topic, cancellation,
                   cancelled, checked, launched, wg, runner, once, todo,
                   broadcasts, cb, files, tcur>>

\* The context handed to receiveMessage is the subscription's or derived
\* from it: its Done channel is closed by the subscription's cancel, for
\* every call that has not returned.  ctxDone keeps how many events the call
\* had made by then.
CtxCancelled(v) ==
    [s \in DOMAIN cb |->
        IF /\ cb[s].kind # "none" /\ cb[s].sub = v
           /\ cb[s].pc \notin {"returned", "done"} /\ cb[s].ctxDone = <<>>
        THEN [cb[s] EXCEPT !.ctxDone = <<Len(cb[s].trace)>>]
        ELSE cb[s]]

\* One iteration of the broadcast loop: v.Cancellation() if it is not nil.
BroadcastStep(c, v) ==
    /\ ProcessAlive
    /\ stopper[c] = "exec"
    /\ v \in todo
    /\ todo' = todo \ {v}
    /\ cancelled' = [cancelled EXCEPT ![v] = @ \/ cancellation[v]]
    /\ cb' = IF cancellation[v] THEN CtxCancelled(v) ELSE cb
    /\ UNCHANGED <<cfg, interactive, client, parse, pc, subz, testing, topic, cancellation,
                   checked, launched, wg, runner, once, stopper, broadcasts,
                   files, tcur>>

\* The loop is over: the function returns and the Once is done.
BroadcastEnd(c) ==
    /\ ProcessAlive
    /\ stopper[c] = "exec"
    /\ todo = {}
    /\ once' = "done"
    /\ stopper' = [stopper EXCEPT ![c] = "ret"]
    /\ UNCHANGED <<cfg, interactive, client, parse, pc, subz, testing, topic, cancellation,
                   cancelled, checked, launched, wg, runner, todo, broadcasts,
                   cb, files, tcur>>

\* ------------------------------------------------------ the runner goroutine

\* The callbacks of subscription v that have not returned.
InFlight(v) ==
    {s \in DOMAIN cb : cb[s].kind = "live" /\ cb[s].sub = v /\ cb[s].pc # "done"}

\* sub.Receive meets an error it does not retry.
ReceiveError(v) ==
    /\ ProcessAlive
    /\ runner[v] = "recv"
    /\ runner' = [runner EXCEPT ![v] = "failing"]
    /\ UNCHANGED <<cfg, interactive, client, parse, pc, subz, testing, topic, cancellation,
                   cancelled, checked, launched, wg, once, stopper, todo,
                   broadcasts, cb, files, tcur>>

\* sub.Receive returns: its context is cancelled or it failed, and the
\* callbacks in flight have returned.
ReceiveReturn(v) ==
    /\ ProcessAlive
    /\ \/ runner[v] = "recv" /\ cancelled[v]
       \/ runner[v] = "failing"
    /\ InFlight(v) = {}
    /\ runner' = [runner EXCEPT ![v] = "unsub"]
    /\ UNCHANGED <<cfg, interactive, client, parse, pc, subz, testing, topic, cancellation,
                   cancelled, checked, launched, wg, once, stopper, todo,
                   broadcasts, cb, files, tcur>>

\* defer onStop()
RunnerStop(v) ==
    /\ ProcessAlive
    /\ runner[v] = "unsub"
    /\ runner' = [runner EXCEPT ![v] = "stopping"]
    /\ stopper' = [stopper EXCEPT ![RunCaller(v)] = "enter"]
    /\ UNCHANGED <<cfg, interactive, client, parse, pc, subz, testing, topic, cancellation,
                   cancelled, checked, launched, wg, once, todo, broadcasts,
                   cb, files, tcur>>

\* defer wg.Done(), after onStop has returned
RunnerDone(v) ==
    /\ ProcessAlive
    /\ runner[v] = "stopping"
    /\ stopper[RunCaller(v)] = "ret"
    /\ runner' = [runner EXCEPT ![v] = "done"]
    /\ wg' = wg - 1
    /\ UNCHANGED <<cfg, interactive, client, parse, pc, subz, testing, topic, cancellation,
                   cancelled, checked, launched, once, stopper, todo,
                   broadcasts, cb, files, tcur>>


\* ------------------------------------------- the callback / receiveMessage

\* The subscription a callback belongs to.
SubOf(s) == cfg[cb[s].sub]

\* The deliveries pass the pipe only when there is a payload:
\* passBytesViaPipe is set in pipe mode, and perform tests len(...) > 0.
UsesPipe(s) == SubOf(s).PassDataVia = dataViaPipe /\ Len(cb[s].msg.Data) > 0

\* The bus hands a message of subscription v to the callback.
Deliver(v, s, m) ==
    /\ ProcessAlive
    /\ runner[v] = "recv"
    /\ ~cancelled[v]
    /\ cb[s].kind = "none"
    /\ cb' = [cb EXCEPT ![s] = NewCb("live", v, m)]
    /\ UNCHANGED <<cfg, interactive, client, parse, files>>
    /\ UNCHANGED lifeVars

\* The same, for a runner that handles one message at a time: the slot of a
\* callback that has returned is used again.
DeliverNext(v, m) ==
    /\ ProcessAlive
    /\ runner[v] = "recv"
    /\ ~cancelled[v]
    /\ cb[1].kind = "none" \/ cb[1].pc = "done"
    /\ cb' = [cb EXCEPT ![1] = NewCb("live", v, m)]
    /\ UNCHANGED <<cfg, interactive, client, parse, files>>
    /\ UNCHANGED lifeVars

\* The loop over msg.Attributes, taken in the given order: a later key
\* overwrites an earlier one of the same name.
RECURSIVE PutAttrs(_, _, _, _)
PutAttrs(m, attrs, order, i) ==
    IF i > Len(order) THEN m
    ELSE PutAttrs((MetaName(order[i]) :> attrs[order[i]]) @@ m, attrs, order,
                  i + 1)

\* commandReplaces as receiveMessage first builds it: the subscription, its
\* topic as it is now, one entry per attribute.
CommandReplaces(s, order) ==
    PutAttrs((GSUB_SUB :> SubName(cb[s].sub))
                @@ (GSUB_TOPIC :> topic[cb[s].sub]),
             cb[s].msg.Attributes, order, 1)

\* Mutant: the payload is substituted in every mode but `file`.
DataEntryEveryMode(via, msg) ==
    IF via = dataViaFile
    THEN GSUB_DATA :> DataFilePath(msg.ID)
    ELSE GSUB_DATA :> EncodeToString(msg.Data)

\* commandReplaces["GSUB_DATA"]: the path of the data file in mode `file`,
\* the encoded payload in mode `var`, no entry otherwise.
DataEntry(via, msg) ==
    IF via = dataViaFile
    THEN GSUB_DATA :> DataFilePath(msg.ID)
    ELSE IF via = dataViaVar
    THEN GSUB_DATA :> EncodeToString(msg.Data)
    ELSE <<>>

\* Not `file` mode: nothing is written.
SkipDataFile(s) ==
    /\ ProcessAlive
    /\ cb[s].pc = "recv"
    /\ SubOf(s).PassDataVia # dataViaFile
    /\ \E order \in AttrOrders(DOMAIN cb[s].msg.Attributes) :
          cb' = [cb EXCEPT ![s].pc = "root",
                           ![s].replaces =
                               DataEntry(SubOf(s).PassDataVia, cb[s].msg)
                               @@ CommandReplaces(s, order)]
    /\ UNCHANGED <<cfg, interactive, client, parse, files>>
    /\ UNCHANGED lifeVars

\* ioutil.WriteFile succeeds: the file holds the payload, and its removal is
\* deferred.
WriteDataFile(s) ==
    /\ ProcessAlive
    /\ cb[s].pc = "recv"
    /\ SubOf(s).PassDataVia = dataViaFile
    /\ files' = (DataFilePath(cb[s].msg.ID) :> cb[s].msg.Data) @@ files
    /\ \E order \in AttrOrders(DOMAIN cb[s].msg.Attributes) :
          cb' = [cb EXCEPT ![s].pc = "root", ![s].wrote = TRUE,
                           ![s].replaces =
                               DataEntry(SubOf(s).PassDataVia, cb[s].msg)
                               @@ CommandReplaces(s, order)]
    /\ UNCHANGED <<cfg, interactive, client, parse>>
    /\ UNCHANGED lifeVars

\* Mutant: the error is logged and the dispatch goes on.
AfterWriteFailGoesOn == "root"

\* Where receiveMessage goes when the write fails: `return false`.
AfterWriteFail == "returned"

\* ioutil.WriteFile fails, before creating the file or after truncating it.
WriteDataFileFail(s, created) ==
    /\ ProcessAlive
    /\ cb[s].pc = "recv"
    /\ SubOf(s).PassDataVia = dataViaFile
    /\ files' = IF created
                THEN (DataFilePath(cb[s].msg.ID) :> <<>>) @@ files
                ELSE files
    /\ \E order \in AttrOrders(DOMAIN cb[s].msg.Attributes) :
          cb' = [cb EXCEPT ![s].pc = AfterWriteFail, ![s].result = "false",
                           ![s].replaces = CommandReplaces(s, order),
                           ![s].trace = Append(@, Ev("writefail", <<>>, FALSE))]
    /\ UNCHANGED <<cfg, interactive, client, parse>>
    /\ UNCHANGED lifeVars

\* `if !sd.Command.empty()`: the root command is performed, or skipped.
RootCommand(s) ==
    /\ ProcessAlive
    /\ cb[s].pc = "root"
    /\ cb' = IF CommandEmpty(SubOf(s).Command)
             THEN [cb EXCEPT ![s].pc = "ifs",
                             ![s].stack = Then(SubOf(s).Ifs, <<>>)]
             ELSE [cb EXCEPT ![s].pc = "perform", ![s].cur = <<>>]
    /\ UNCHANGED <<cfg, interactive, client, parse, files>>
    /\ UNCHANGED lifeVars

\* Mutant: a failed command ends the dispatch.
PerformFailureHalts(ok) == ~ok

\* Whether the outcome of a command (ok: it ran and exited with status zero)
\* stops the dispatch: receiveMessage and the callback of eval drop what
\* perform returns, and perform only logs the command's error.
PerformResultHalts(ok) == FALSE

\* Mutant: the children are visited whether or not p matched.
DescendAlways(tree, p, matched) == Then(tree, p)

\* The nodes eval visits after node p: its children, when p matched.
Descend(tree, p, matched) == IF matched THEN Then(tree, p) ELSE <<>>

\* Mutant: the dispatch looks at its context between commands.
ContextHaltsWhenDone(done) == done

\* Whether a cancelled context stops the dispatch: receiveMessage never
\* reads ctx, and perform makes its process with exec.Command, without a
\* context.
ContextHalts(done) == FALSE

\* perform has returned for command cb[s].cur with the events `evs`: the
\* caller goes on with the children of the node (the root nodes after the
\* root command), then with what was pending.
AfterPerform(s, evs, ok) ==
    IF PerformResultHalts(ok) \/ ContextHalts(cb[s].ctxDone # <<>>)
    THEN [cb EXCEPT ![s].pc = "ifs", ![s].stack = <<>>,
                    ![s].trace = @ \o evs]
    ELSE [cb EXCEPT ![s].pc = "ifs",
                    ![s].stack = Descend(SubOf(s).Ifs, cb[s].cur, TRUE) \o @,
                    ![s].trace = @ \o evs]

\* The command perform is running for the callback.
CommandOf(s) ==
    IF cb[s].cur = <<>> THEN SubOf(s).Command ELSE SubOf(s).Ifs[cb[s].cur].Command

\* Mutant: the executable goes through the Replacer too.
ArgvWithExecutable(sc, replaces, order) ==
    [i \in 1..Len(sc) |-> Replace(sc[i], replaces, order)]

\* cmd and cmdArgs of perform: the executable is trimmed and left as it is,
\* every other element goes through the Replacer.
Argv(sc, replaces, order) ==
    [i \in 1..Len(sc) |->
        IF i = 1 THEN TrimSpace(sc[1]) ELSE Replace(sc[i], replaces, order)]

\* exec.Command(cmd, cmdArgs...) for the command perform was called with:
\* what the callback has handed to exec so far, with this one added.
Commanded(s, order) ==
    Append(cb[s].argv,
           [n |-> cb[s].cur,
            args |-> Argv(CommandOf(s), cb[s].replaces, order)])

\* command.StdinPipe() or stdin.Write fails: perform returns false.
PerformPipeFail(s) ==
    /\ ProcessAlive
    /\ cb[s].pc = "perform"
    /\ UsesPipe(s)
    /\ \E order \in ReplaceOrders(DOMAIN cb[s].replaces) :
          cb' = [AfterPerform(s, <<Ev("pipeerr", cb[s].cur, FALSE)>>, FALSE)
                    EXCEPT ![s].argv = Commanded(s, order)]
    /\ UNCHANGED <<cfg, interactive, client, parse, files>>
    /\ UNCHANGED lifeVars

\* stdin.Write returns: the encoded payload fits the buffer of the pipe,
\* which nobody reads yet (the process is started after the write).
PipeWriteReturns(s) == Len(EncodeToString(cb[s].msg.Data)) <= PipeCapacity

\* The events up to the start of the process: the pipe is written first.
PipeEvents(s) == IF UsesPipe(s) THEN <<Ev("pipe", cb[s].cur, TRUE)>> ELSE <<>>

\* The deferred stdin.Close() runs when perform returns.
CloseEvents(s) == IF UsesPipe(s) THEN <<Ev("close", cb[s].cur, TRUE)>> ELSE <<>>

\* The pipe is written (stdin.Write blocks for good when the payload does
\* not fit), then command.CombinedOutput() starts the process.
PerformStart(s) ==
    /\ ProcessAlive
    /\ cb[s].pc = "perform"
    /\ \E order \in ReplaceOrders(DOMAIN cb[s].replaces) :
          cb' = IF UsesPipe(s) /\ ~PipeWriteReturns(s)
                THEN [cb EXCEPT ![s].pc = "pipewrite",
                                ![s].argv = Commanded(s, order)]
                ELSE [cb EXCEPT ![s].pc = "wait",
                                ![s].argv = Commanded(s, order),
                                ![s].trace = @ \o PipeEvents(s)
                                               \o <<Ev("start", cb[s].cur, TRUE)>>]
    /\ UNCHANGED <<cfg, interactive, client, parse, files>>
    /\ UNCHANGED lifeVars

\* command.CombinedOutput() cannot start the process: the error is logged.
PerformSpawnFail(s) ==
    /\ ProcessAlive
    /\ cb[s].pc = "perform"
    /\ \E order \in ReplaceOrders(DOMAIN cb[s].replaces) :
          cb' = [AfterPerform(s, PipeEvents(s)
                                 \o <<Ev("spawnerr", cb[s].cur, FALSE)>>
                                 \o CloseEvents(s), FALSE)
                    EXCEPT ![s].argv = Commanded(s, order)]
    /\ UNCHANGED <<cfg, interactive, client, parse, files>>
    /\ UNCHANGED lifeVars

\* The write end of the pipe is open while CombinedOutput waits: the
\* deferred stdin.Close() has not run, so the child's read has no
\* end-of-file.
PipeOpenDuringWait(s) == UsesPipe(s)

\* The process exits, with status zero or not; perform returns true.  A
\* process that reads its input to end-of-file does not exit while the pipe
\* is open.
ChildExit(s, zero) ==
    /\ ProcessAlive
    /\ cb[s].pc = "wait"
    /\ ~(PipeOpenDuringWait(s) /\ ReadsStdinToEOF(CommandOf(s)))
    /\ cb' = AfterPerform(s, <<Ev("exit", cb[s].cur, zero)>> \o CloseEvents(s),
                          zero)
    /\ UNCHANGED <<cfg, interactive, client, parse, files>>
    /\ UNCHANGED lifeVars

\* subIf.eval of the next pending node: the pattern is tested; on a match
\* the callback is called (perform, which returns at once for an empty
\* command) and the children follow.
EvalNode(s) ==
    /\ ProcessAlive
    /\ cb[s].pc = "ifs"
    /\ cb[s].stack # <<>>
    /\ LET p == Head(cb[s].stack)
           rest == Tail(cb[s].stack)
           node == SubOf(s).Ifs[p]
           matched == NodeMatches(node, cb[s].msg)
       IN  cb' =
             IF node.FieldType # subIfFieldMetaKey
             THEN [cb EXCEPT ![s].stack = rest]
             ELSE IF ~matched
             THEN [cb EXCEPT ![s].stack = Descend(SubOf(s).Ifs, p, FALSE) \o rest,
                             ![s].trace = Append(@, Ev("eval", p, FALSE))]
             ELSE IF CommandEmpty(node.Command)
             THEN [cb EXCEPT ![s].stack = Descend(SubOf(s).Ifs, p, TRUE) \o rest,
                             ![s].trace = @ \o <<Ev("eval", p, TRUE),
                                                 Ev("trigger", p, TRUE)>>]
             ELSE [cb EXCEPT ![s].pc = "perform", ![s].cur = p,
                             ![s].stack = rest,
                             ![s].trace = @ \o <<Ev("eval", p, TRUE),
                                                 Ev("trigger", p, TRUE)>>]
    /\ UNCHANGED <<cfg, interactive, client, parse, files>>
    /\ UNCHANGED lifeVars

\* Mutant: the file is left behind.
RemoveDataFileNever(fs, path) == fs

\* os.Remove(dataFile)
RemoveDataFile(fs, path) == [q \in DOMAIN fs \ {path} |-> fs[q]]

\* `return true`, then the deferred removal of the data file.
ReturnTrue(s) ==
    /\ ProcessAlive
    /\ cb[s].pc = "ifs"
    /\ cb[s].stack = <<>>
    /\ cb' = [cb EXCEPT ![s].pc = "returned", ![s].result = "true"]
    /\ files' = IF cb[s].wrote
                THEN RemoveDataFile(files, DataFilePath(cb[s].msg.ID))
                ELSE files
    /\ UNCHANGED <<cfg, interactive, client, parse>>
    /\ UNCHANGED lifeVars

\* Mutant: every message is acknowledged.
AckAlways(result) == "ack"

\* The callback's choice between msg.Ack() and msg.Nack().
AckDecision(result) == IF result = "true" THEN "ack" ELSE "nack"

\* Mutant: a negative acknowledgement makes the runner's Receive fail.
NackEndsReceiveAlways(decision) == decision = "nack"

\* Whether the callback's decision ends the runner's receive loop: the
\* callback only calls msg.Ack() or msg.Nack() and returns nothing.
NackEndsReceive(decision) == FALSE

\* msg.Ack() / msg.Nack(); the callback returns.
AckMsg(s) ==
    /\ ProcessAlive
    /\ cb[s].kind = "live"
    /\ cb[s].pc = "returned"
    /\ cb' = [cb EXCEPT ![s].pc = "done",
                        ![s].ack = Append(@, AckDecision(cb[s].result))]
    /\ runner' = IF NackEndsReceive(AckDecision(cb[s].result))
                 THEN [runner EXCEPT ![cb[s].sub] = "failing"]
                 ELSE runner
    /\ UNCHANGED <<cfg, interactive, client, parse, files, pc, subz, testing,
                   topic, cancellation, cancelled, checked, launched, wg, once,
                   stopper, todo, broadcasts, tcur>>

\* ------------------------------------------------------- parseSubsConfig

\* The entry the loop of parseSubsConfig is at.
Entry == parse.entries[parse.i]

ParseAt == parse.pc = "loop" /\ parse.i <= Len(parse.entries)

\* `if v.Disable { continue }`
ParseSkip ==
    /\ pc = "load"
    /\ ParseAt
    /\ Entry.Disable
    /\ parse' = [parse EXCEPT !.i = @ + 1]
    /\ UNCHANGED <<cfg, interactive, client, files, cb>>
    /\ UNCHANGED lifeVars

\* v.Name = strings.TrimSpace(v.Name)
NameOf(e) == TrimSpace(e.Name)

\* len(v.Name) < 3 || len(v.Name) > 255
NameInvalid(name) == ByteLen(name) < MinNameLen \/ ByteLen(name) > MaxNameLen

\* The name is refused: the function returns with the error and with the
\* map as far as it was filled.
ParseBadName ==
    /\ pc = "load"
    /\ ParseAt
    /\ ~Entry.Disable
    /\ NameInvalid(NameOf(Entry))
    /\ parse' = [parse EXCEPT !.pc = "returned", !.err = "invalid name"]
    /\ UNCHANGED <<cfg, interactive, client, files, cb>>
    /\ UNCHANGED lifeVars

\* `if _, ok := subz[v.Name]; ok`: the name is in the map already.
ParseDuplicate ==
    /\ pc = "load"
    /\ ParseAt
    /\ ~Entry.Disable
    /\ ~NameInvalid(NameOf(Entry))
    /\ NameOf(Entry) \in parse.subz
    /\ parse' = [parse EXCEPT !.pc = "returned", !.err = "duplicate"]
    /\ UNCHANGED <<cfg, interactive, client, files, cb>>
    /\ UNCHANGED lifeVars

\* subz[v.Name] = &subData{...}
ParseAdd ==
    /\ pc = "load"
    /\ ParseAt
    /\ ~Entry.Disable
    /\ ~NameInvalid(NameOf(Entry))
    /\ NameOf(Entry) \notin parse.subz
    /\ parse' = [parse EXCEPT !.i = @ + 1, !.subz = @ \cup {NameOf(Entry)}]
    /\ UNCHANGED <<cfg, interactive, client, files, cb>>
    /\ UNCHANGED lifeVars

\* After the loop: `if len(subz) == 0` is an error, otherwise the function
\* returns the map.
ParseEnd ==
    /\ pc = "load"
    /\ parse.pc = "loop"
    /\ parse.i > Len(parse.entries)
    /\ parse' = [parse EXCEPT !.pc = "returned",
                              !.err = IF parse.subz = {} THEN "empty" ELSE ""]
    /\ UNCHANGED <<cfg, interactive, client, files, cb>>
    /\ UNCHANGED lifeVars

\* onStart: `subz = subzMap` when parseSubsConfig returned no error.
ParseAssign ==
    /\ pc = "load"
    /\ parse.pc = "returned"
    /\ parse.err = ""
    /\ parse' = [parse EXCEPT !.pc = "loaded", !.global = parse.subz]
    /\ pc' = "client"
    /\ UNCHANGED <<cfg, interactive, client, subz, testing, topic, cancellation,
                   cancelled, checked, launched, wg, runner, once, stopper,
                   todo, broadcasts, cb, files, tcur>>

\* onStart: log.Fatal("Failed to parse subscriptions: ", err); the map that
\* came with the error is dropped.
ParseFatal ==
    /\ pc = "load"
    /\ parse.pc = "returned"
    /\ parse.err # ""
    /\ parse' = [parse EXCEPT !.pc = "failed"]
    /\ pc' = "fatal"
    /\ UNCHANGED <<cfg, interactive, client, subz, testing, topic, cancellation,
                   cancelled, checked, launched, wg, runner, once, stopper,
                   todo, broadcasts, cb, files, tcur>>

\* ------------------------------------------------------------ specifications

Coordinator ==
    \/ LoadConfig
    \/ LoadFatal
    \/ StartClient
    \/ ClientFatal
    \/ \E v \in AllSubs : CheckSub(v)
    \/ \E v \in AllSubs : CheckFatal(v)
    \/ \E v \in AllSubs : LaunchSub(v)
    \/ \E v \in AllSubs : LaunchTests(v)
    \/ TestCall
    \/ TestReturn
    \/ TestLoopEnd
    \/ StartSignalWait
    \/ WaitReturn

Shutdown ==
    \/ SignalStop
    \/ \E i \in SvcCallers : ServiceStop(i)
    \/ \E c \in Callers : OnceDoFirst(c)
    \/ \E c \in Callers : OnceDoLater(c)
    \/ \E c \in Callers, v \in AllSubs : BroadcastStep(c, v)
    \/ \E c \in Callers : BroadcastEnd(c)

Runner ==
    \/ \E v \in AllSubs : ReceiveError(v)
    \/ \E v \in AllSubs : ReceiveReturn(v)
    \/ \E v \in AllSubs : RunnerStop(v)
    \/ \E v \in AllSubs : RunnerDone(v)

\* The steps of the call in slot s.
DispatchOf(s) ==
    \/ SkipDataFile(s)
    \/ WriteDataFile(s)
    \/ \E created \in BOOLEAN : WriteDataFileFail(s, created)
    \/ RootCommand(s)
    \/ PerformPipeFail(s)
    \/ PerformStart(s)
    \/ PerformSpawnFail(s)
    \/ \E zero \in BOOLEAN : ChildExit(s, zero)
    \/ EvalNode(s)
    \/ ReturnTrue(s)
    \/ AckMsg(s)

Dispatch == \E s \in Slots : DispatchOf(s)

Next ==
    \/ Coordinator
    \/ Shutdown
    \/ Runner
    \/ \E v \in AllSubs, s \in Slots, m \in LifeMsgs : Deliver(v, s, m)
    \/ Dispatch

\* The whole daemon, from the start of onStart.
Spec == Init /\ [][Next]_vars

\* One live runner in Receive, handed one message after another.
DispatchInit ==
    /\ cfg \in [{1} -> DispatchSubCfgs]
    /\ interactive = TRUE
    /\ client = TRUE
    /\ parse = NoParse
    /\ pc = "wait"
    /\ subz = {1}
    /\ testing = FALSE
    /\ topic = [v \in AllSubs |-> IF v = 1 THEN TopicOf(v) ELSE <<>>]
    /\ cancellation = [v \in AllSubs |-> v = 1]
    /\ cancelled = [v \in AllSubs |-> FALSE]
    /\ checked = {1}
    /\ launched = {1}
    /\ wg = 1
    /\ runner = [v \in AllSubs |-> IF v = 1 THEN "recv" ELSE "idle"]
    /\ once = "fresh"
    /\ stopper = [c \in Callers |-> "none"]
    /\ todo = {}
    /\ broadcasts = 0
    /\ cb = [s \in Slots |-> NoCb]
    /\ files = <<>>
    /\ tcur = [sub |-> 0, idx |-> 0]

DispatchNext ==
    \/ \E m \in Msgs : DeliverNext(1, m)
    \/ Dispatch

DispatchSpec == DispatchInit /\ [][DispatchNext]_vars

\* Two callbacks at a time: both subscriptions of the live configuration
\* listen, and the bus hands out up to two messages, to one subscription or
\* to both, while a signal may ask for shutdown at any time.
PairSlots == {1, 2}
PairMsg(s) ==
    [ID |-> IF s = 1 THEN "m1" ELSE "m2", Data |-> <<104, 105>>,
     Attributes |-> ("server" :> StrA)]

PairInit ==
    /\ cfg = LiveCfg
    /\ interactive = TRUE
    /\ client = TRUE
    /\ parse = NoParse
    /\ pc = "wait"
    /\ subz = AllSubs
    /\ testing = FALSE
    /\ topic = [v \in AllSubs |-> TopicOf(v)]
    /\ cancellation = [v \in AllSubs |-> TRUE]
    /\ cancelled = [v \in AllSubs |-> FALSE]
    /\ checked = AllSubs
    /\ launched = AllSubs
    /\ wg = NSubs
    /\ runner = [v \in AllSubs |-> "recv"]
    /\ once = "fresh"
    /\ stopper = [c \in Callers |-> "none"]
    /\ todo = {}
    /\ broadcasts = 0
    /\ cb = [s \in PairSlots |-> NoCb]
    /\ files = <<>>
    /\ tcur = [sub |-> 0, idx |-> 0]

PairNext ==
    \/ \E v \in AllSubs, s \in PairSlots :
          (s = 1 => v = 1) /\ Deliver(v, s, PairMsg(s))
    \/ \E s \in PairSlots : DispatchOf(s)
    \/ SignalStop
    \/ \E c \in Callers : OnceDoFirst(c)
    \/ \E c \in Callers : OnceDoLater(c)
    \/ \E c \in Callers, v \in AllSubs : BroadcastStep(c, v)
    \/ \E c \in Callers : BroadcastEnd(c)
    \/ \E v \in AllSubs : ReceiveReturn(v)
    \/ \E v \in AllSubs : RunnerStop(v)
    \/ \E v \in AllSubs : RunnerDone(v)
    \/ WaitReturn

PairSpec == PairInit /\ [][PairNext]_vars

\* Two callbacks at a time in `file` mode: every subscription writes the
\* payload to a file and hands its path to one command.  The two messages
\* come with different identifiers or with the same one (a redelivery to
\* one subscription, or one publication received by two subscriptions of
\* the same topic).
FileCfg ==
    [v \in AllSubs |->
        IF v = 1 THEN SubCfg(CmdData, dataViaFile, TreeNone, <<>>)
                 ELSE SubCfg(CmdData, dataViaFile, TreeOne, <<>>)]

FileMsgs ==
    {[ID |-> id, Data |-> <<104, 105>>, Attributes |-> ("server" :> StrA)] :
        id \in {"m1", "m2"}}

FileInit ==
    /\ cfg = FileCfg
    /\ interactive = TRUE
    /\ client = TRUE
    /\ parse = NoParse
    /\ pc = "wait"
    /\ subz = AllSubs
    /\ testing = FALSE
    /\ topic = [v \in AllSubs |-> TopicOf(v)]
    /\ cancellation = [v \in AllSubs |-> TRUE]
    /\ cancelled = [v \in AllSubs |-> FALSE]
    /\ checked = AllSubs
    /\ launched = AllSubs
    /\ wg = NSubs
    /\ runner = [v \in AllSubs |-> "recv"]
    /\ once = "fresh"
    /\ stopper = [c \in Callers |-> "none"]
    /\ todo = {}
    /\ broadcasts = 0
    /\ cb = [s \in PairSlots |-> NoCb]
    /\ files = <<>>
    /\ tcur = [sub |-> 0, idx |-> 0]

\* The steps of a call in `file` mode: no pipe, and the write is never
\* skipped.
FileNext ==
    \/ \E v \in AllSubs, s \in PairSlots, m \in FileMsgs : Deliver(v, s, m)
    \/ \E s \in PairSlots : WriteDataFile(s)
    \/ \E s \in PairSlots, created \in BOOLEAN : WriteDataFileFail(s, created)
    \/ \E s \in PairSlots : RootCommand(s)
    \/ \E s \in PairSlots : PerformStart(s)
    \/ \E s \in PairSlots : PerformSpawnFail(s)
    \/ \E s \in PairSlots, zero \in BOOLEAN : ChildExit(s, zero)
    \/ \E s \in PairSlots : EvalNode(s)
    \/ \E s \in PairSlots : ReturnTrue(s)
    \/ \E s \in PairSlots : AckMsg(s)

FileSpec == FileInit /\ [][FileNext]_vars

\* One message handled twice (a redelivery): the same subscription, the
\* same command, the same attributes; up to two attributes, among them a
\* key that is the beginning of another and two keys that differ by a blank
\* and an underscore.
SubstCfg == [v \in AllSubs |-> SubCfg(CmdMeta, dataViaNone, TreeNone, <<>>)]

SubstKeys == {"a", "ab", "my key", "my_key"}
MaxAttrs == 2
SubstMsgs ==
    {[ID |-> "m1", Data |-> <<>>, Attributes |-> attrs] :
        attrs \in UNION {[K -> {StrA, StrBA}] :
                            K \in {L \in SUBSET SubstKeys :
                                      Cardinality(L) <= MaxAttrs}}}

SubstInit ==
    /\ cfg = SubstCfg
    /\ interactive = TRUE
    /\ client = TRUE
    /\ parse = NoParse
    /\ pc = "wait"
    /\ subz = AllSubs
    /\ testing = FALSE
    /\ topic = [v \in AllSubs |-> TopicOf(v)]
    /\ cancellation = [v \in AllSubs |-> TRUE]
    /\ cancelled = [v \in AllSubs |-> FALSE]
    /\ checked = AllSubs
    /\ launched = AllSubs
    /\ wg = NSubs
    /\ runner = [v \in AllSubs |-> "recv"]
    /\ once = "fresh"
    /\ stopper = [c \in Callers |-> "none"]
    /\ todo = {}
    /\ broadcasts = 0
    /\ cb = [s \in PairSlots |-> NoCb]
    /\ files = <<>>
    /\ tcur = [sub |-> 0, idx |-> 0]

\* The bus hands the message to subscription 1, a second time the same one.
SubstDeliver(s, m) ==
    /\ \A o \in PairSlots \ {s} : cb[o].kind = "none" \/ cb[o].msg = m
    /\ Deliver(1, s, m)

\* The steps of a call in mode `none` for a subscription without rules.
SubstNext ==
    \/ \E s \in PairSlots, m \in SubstMsgs : SubstDeliver(s, m)
    \/ \E s \in PairSlots : SkipDataFile(s)
    \/ \E s \in PairSlots : RootCommand(s)
    \/ \E s \in PairSlots : PerformStart(s)
    \/ \E s \in PairSlots : PerformSpawnFail(s)
    \/ \E s \in PairSlots, zero \in BOOLEAN : ChildExit(s, zero)
    \/ \E s \in PairSlots : ReturnTrue(s)
    \/ \E s \in PairSlots : AckMsg(s)

SubstSpec == SubstInit /\ [][SubstNext]_vars

\* The loading of one configuration document, whatever its entries.
LoadInit ==
    /\ cfg = LiveCfg
    /\ interactive = TRUE
    /\ client = FALSE
    /\ parse \in {[NoParse EXCEPT !.pc = "loop", !.entries = entries, !.i = 1] :
                     entries \in RawLists}
    /\ pc = "load"
    /\ subz = {}
    /\ testing = FALSE
    /\ topic = [v \in AllSubs |-> <<>>]
    /\ cancellation = [v \in AllSubs |-> FALSE]
    /\ cancelled = [v \in AllSubs |-> FALSE]
    /\ checked = {}
    /\ launched = {}
    /\ wg = 0
    /\ runner = [v \in AllSubs |-> "idle"]
    /\ once = "fresh"
    /\ stopper = [c \in Callers |-> "none"]
    /\ todo = {}
    /\ broadcasts = 0
    /\ cb = [s \in Slots |-> NoCb]
    /\ files = <<>>
    /\ tcur = [sub |-> 0, idx |-> 0]

LoadNext ==
    \/ ParseSkip
    \/ ParseBadName
    \/ ParseDuplicate
    \/ ParseAdd
    \/ ParseEnd
    \/ ParseAssign
    \/ ParseFatal

LoadSpec == LoadInit /\ [][LoadNext]_vars


\* The fairness the Go scheduler gives: every goroutine that can take a step
\* of the program eventually does, and a spawned command exits.  Signals,
\* service stops, deliveries, receive errors and fatal errors are the
\* environment's and owe nothing.
Fairness ==
    /\ WF_vars(LoadConfig)
    /\ WF_vars(StartClient)
    /\ WF_vars(\E v \in AllSubs : CheckSub(v))
    /\ WF_vars(\E v \in AllSubs : LaunchSub(v) \/ LaunchTests(v))
    /\ WF_vars(TestCall \/ TestReturn \/ TestLoopEnd)
    /\ WF_vars(StartSignalWait \/ WaitReturn)
    /\ \A c \in Callers :
          WF_vars(OnceDoFirst(c) \/ OnceDoLater(c) \/ BroadcastEnd(c)
                  \/ \E v \in AllSubs : BroadcastStep(c, v))
    /\ \A v \in AllSubs :
          WF_vars(ReceiveReturn(v) \/ RunnerStop(v) \/ RunnerDone(v))
    /\ \A s \in Slots :
          WF_vars(SkipDataFile(s) \/ WriteDataFile(s) \/ RootCommand(s)
                  \/ PerformStart(s) \/ EvalNode(s) \/ ReturnTrue(s)
                  \/ AckMsg(s) \/ \E zero \in BOOLEAN : ChildExit(s, zero))

FairSpec == Spec /\ Fairness

\* The same fairness for the steps of a dispatch.
DispatchFairness ==
    \A s \in Slots :
        WF_vars(SkipDataFile(s) \/ WriteDataFile(s) \/ RootCommand(s)
                \/ PerformStart(s) \/ EvalNode(s) \/ ReturnTrue(s)
                \/ AckMsg(s) \/ \E zero \in BOOLEAN : ChildExit(s, zero))

DispatchFairSpec == DispatchSpec /\ DispatchFairness

\* ------------------------------------------------------------------ claims

\* The invocations of onStop that have returned.
Returned == {c \in Callers : stopper[c] = "ret"}

\* C1: however many invocations of onStop there are and however they
\* interleave, the body of stopOnce.Do (the broadcast loop) is entered at most
\* once, by one invocation; once any invocation has returned it has been
\* entered exactly once and is over; and a step of any other invocation
\* changes no context and no Once state.
C1_BroadcastExactlyOnce ==
    /\ [](/\ broadcasts <= 1
          /\ Cardinality({c \in Callers : stopper[c] = "exec"}) <= 1
          /\ (Returned # {} => broadcasts = 1 /\ once = "done" /\ todo = {}))
    /\ [][\A c \in Callers :
             (stopper[c] = "enter" /\ stopper'[c] = "ret")
             => /\ cancelled' = cancelled
                /\ broadcasts' = broadcasts
                /\ once' = once]_vars

\* C1 witness: the signal goroutine, a service Stop and a runner's deferred
\* call have all returned from onStop, after one broadcast.
C1_Witness ==
    /\ stopper[SigCaller] = "ret"
    /\ stopper[SvcCaller(1)] = "ret"
    /\ \E v \in AllSubs : stopper[RunCaller(v)] = "ret"
    /\ broadcasts = 1

\* C2: once onStop has been invoked, whenever that was, the daemon stops:
\* onStart's wait returns (or the process has exited on a fatal error).
C2_ShutdownAlwaysStopsTheDaemon ==
    (\E c \in Callers : stopper[c] # "none") ~> (pc \in {"stopped", "fatal"})

\* The safety core of C2: when the broadcast is over, no runner is left
\* listening on a context that was not cancelled.
C2_NoRunnerEscapesTheBroadcast ==
    once = "done" => \A v \in AllSubs : runner[v] = "recv" => cancelled[v]

\* C3: in live mode onStart is past wg.Wait() only when the receive loop of
\* every runner it started has returned (and its callbacks with it) and the
\* runner has finished.
C3_WaitOutlastsEveryRunner ==
    (pc = "stopped" /\ ~testing)
    => /\ launched = subz
       /\ \A v \in launched : runner[v] = "done" /\ InFlight(v) = {}

\* C3 witness: onStart has passed its wait in live mode, and a runner that
\* handled a message is among those that finished.
C3_Witness ==
    /\ pc = "stopped"
    /\ ~testing
    /\ \E v \in launched, s \in Slots :
          runner[v] = "done" /\ cb[s].sub = v /\ cb[s].pc = "done"


\* ------------------------------------------- what a dispatch is expected to do

\* p comes before q in the order eval visits nodes: a parent before its
\* children, siblings by index.
VisitedBefore(p, q) ==
    /\ p # q
    /\ \/ Len(p) < Len(q) /\ SubSeq(q, 1, Len(p)) = p
       \/ \E k \in 1..Len(p) :
             /\ k <= Len(q)
             /\ SubSeq(p, 1, k - 1) = SubSeq(q, 1, k - 1)
             /\ p[k] < q[k]

RECURSIVE InVisitOrder(_)
InVisitOrder(S) ==
    IF S = {} THEN <<>>
    ELSE LET first == CHOOSE p \in S : \A q \in S \ {p} : VisitedBefore(p, q)
         IN  <<first>> \o InVisitOrder(S \ {first})

\* The nodes whose own pattern and whose ancestors' patterns all match.
MatchingNodes(tree, msg) ==
    {p \in DOMAIN tree :
        \A k \in 1..Len(p) : NodeMatches(tree[SubSeq(p, 1, k)], msg)}

\* The commands a message triggers, in order: the root command if it is not
\* empty, then the non-empty commands of the matching nodes.
ExpectedCommands(sub, msg) ==
    (IF CommandEmpty(sub.Command) THEN <<>> ELSE << <<>> >>)
    \o InVisitOrder({p \in MatchingNodes(sub.Ifs, msg) :
                        ~CommandEmpty(sub.Ifs[p].Command)})

\* What a dispatch has done so far, read off its events.
EventsOf(s, kinds) == SelectSeq(cb[s].trace, LAMBDA ev : ev.e \in kinds)
NodesOf(s, kinds) ==
    {cb[s].trace[i].n : i \in {j \in 1..Len(cb[s].trace) : cb[s].trace[j].e \in kinds}}

\* The commands perform was asked to run, in order (each ends in exactly one
\* of: started, failed to start, pipe failed).
Performed(s) ==
    LET evs == EventsOf(s, {"start", "spawnerr", "pipeerr"})
    IN  [i \in 1..Len(evs) |-> evs[i].n]

IsPrefix(a, b) == Len(a) <= Len(b) /\ SubSeq(b, 1, Len(a)) = a

\* receiveMessage has returned.
Finished(s) == cb[s].kind # "none" /\ cb[s].pc \in {"returned", "done"}

\* receiveMessage has gone through the root command and the rule loop.
Completed(s) == Finished(s) /\ cb[s].result = "true"

WriteFailed(s) == \E i \in 1..Len(cb[s].trace) : cb[s].trace[i].e = "writefail"

CommandFailed(s) ==
    \E i \in 1..Len(cb[s].trace) :
        \/ cb[s].trace[i].e \in {"spawnerr", "pipeerr"}
        \/ cb[s].trace[i].e = "exit" /\ ~cb[s].trace[i].ok


Evaluated(s) == NodesOf(s, {"eval"})
Triggered(s) == NodesOf(s, {"trigger"})
Parent(p) == SubSeq(p, 1, Len(p) - 1)

\* Node q was evaluated and matched before event i of the dispatch.
MatchedBefore(s, q, i) ==
    \E j \in 1..(i - 1) : cb[s].trace[j] = Ev("eval", q, TRUE)

\* C4: no orphan evaluation.  In every dispatch, an event of a rule node (its
\* evaluation, the call of its command, the run of its command) comes only
\* after every ancestor of the node was evaluated and matched on this
\* message, so nothing below a node that did not match is evaluated or run;
\* and when the rule loop is over, every child of a node that matched has
\* been evaluated.
C4_NoOrphanEvaluation ==
    \A s \in Slots :
        cb[s].kind # "none" =>
            /\ \A i \in 1..Len(cb[s].trace) :
                  LET n == cb[s].trace[i].n
                  IN  \A k \in 1..(Len(n) - 1) :
                          MatchedBefore(s, SubSeq(n, 1, k), i)
            /\ \A p \in Evaluated(s) :
                  Len(p) > 1 => Ev("eval", Parent(p), TRUE) \in
                                  {cb[s].trace[i] : i \in 1..Len(cb[s].trace)}
            /\ Completed(s) =>
                  \A p \in DOMAIN SubOf(s).Ifs :
                      (Len(p) > 1 /\ Parent(p) \in Triggered(s))
                      => p \in Evaluated(s)

\* C4 witness: a finished dispatch in which one child was evaluated under a
\* parent that matched, and another node was skipped under a parent that was
\* evaluated and did not match.
C4_Witness ==
    \E s \in Slots :
        /\ Completed(s)
        /\ \E p, q \in DOMAIN SubOf(s).Ifs :
              /\ Len(p) > 1 /\ p \in Evaluated(s)
              /\ Len(q) > 1 /\ q \notin Evaluated(s)
              /\ Parent(q) \in Evaluated(s) \ Triggered(s)

\* C5: siblings do not short-circuit.  When the rule loop of a dispatch is
\* over, every root node and every child of a matched node has been
\* evaluated, exactly once; the nodes whose command was called are exactly
\* the nodes whose pattern and whose ancestors' patterns match the message
\* (a missing attribute read as ""), and the commands run are the non-empty
\* ones among them.
C5_SiblingsIndependent ==
    \A s \in Slots :
        Completed(s) =>
            LET tree == SubOf(s).Ifs
                msg == cb[s].msg
            IN  /\ \A p \in DOMAIN tree : Len(p) = 1 => p \in Evaluated(s)
                /\ \A p \in DOMAIN tree :
                      (Len(p) > 1 /\ Parent(p) \in MatchingNodes(tree, msg))
                      => p \in Evaluated(s)
                /\ \A p \in Evaluated(s) :
                      Len(SelectSeq(cb[s].trace,
                                    LAMBDA ev : ev.e = "eval" /\ ev.n = p)) = 1
                /\ Triggered(s) = MatchingNodes(tree, msg)
                /\ NodesOf(s, {"start", "spawnerr", "pipeerr"}) \ {<<>>}
                      = {p \in MatchingNodes(tree, msg) :
                            ~CommandEmpty(tree[p].Command)}

\* C5 witness: a finished dispatch in which a root node did not match and a
\* later root node, testing an attribute the message does not have, did.
C5_Witness ==
    \E s \in Slots :
        /\ Completed(s)
        /\ \E p, q \in DOMAIN SubOf(s).Ifs :
              /\ Len(p) = 1 /\ Len(q) = 1 /\ p[1] < q[1]
              /\ p \in Evaluated(s) \ Triggered(s)
              /\ q \in Triggered(s)
              /\ SubOf(s).Ifs[q].FieldName \notin DOMAIN cb[s].msg.Attributes

\* C6: the commands of one message run one after another in a fixed order.
\* At every moment the commands performed so far are a prefix of: the root
\* command (if not empty), then the non-empty commands of the matching nodes
\* in visiting order; at the end they are that whole list; and a command is
\* started only when every command started before it has exited.
C6_CommandsInOrderOneAtATime ==
    \A s \in Slots :
        cb[s].kind # "none" =>
            LET tr == cb[s].trace
                want == ExpectedCommands(SubOf(s), cb[s].msg)
            IN  /\ IsPrefix(Performed(s), want)
                /\ Completed(s) => Performed(s) = want
                /\ \A i \in 1..Len(tr) :
                      tr[i].e = "start" =>
                          \/ i = Len(tr) /\ cb[s].pc = "wait"
                          \/ i < Len(tr) /\ tr[i + 1].e = "exit"
                                         /\ tr[i + 1].n = tr[i].n
                /\ cb[s].pc = "wait" =>
                      (tr # <<>> /\ tr[Len(tr)] = Ev("start", cb[s].cur, TRUE))

\* C6 witness: a finished dispatch that ran the root command, then a parent's
\* command, then a descendant's.
C6_Witness ==
    \E s \in Slots :
        /\ Completed(s)
        /\ Len(Performed(s)) >= 3
        /\ Performed(s)[1] = <<>>
        /\ Len(Performed(s)[3]) > Len(Performed(s)[2])
        /\ Len(EventsOf(s, {"exit"})) >= 3

\* C7: a live callback decides exactly once, when receiveMessage has
\* returned and no command of the message is running: nothing is decided
\* before, and the decision is nack exactly when the mode is `file` and the
\* write of the data file failed, ack otherwise.
C7_OneAckDecision ==
    \A s \in Slots :
        cb[s].kind = "live" =>
            /\ cb[s].pc # "done" => cb[s].ack = <<>>
            /\ cb[s].pc = "done" =>
                  /\ Len(cb[s].ack) = 1
                  /\ cb[s].ack[1] \in {"ack", "nack"}
                  /\ cb[s].ack[1] = "nack"
                        <=> (SubOf(s).PassDataVia = dataViaFile /\ WriteFailed(s))
                  /\ Len(EventsOf(s, {"start"})) = Len(EventsOf(s, {"exit"}))
                  /\ ~WriteFailed(s) =>
                        Performed(s) = ExpectedCommands(SubOf(s), cb[s].msg)

\* C7 witness: a message was negatively acknowledged.
C7_Witness ==
    \E s \in Slots :
        cb[s].kind = "live" /\ cb[s].pc = "done" /\ cb[s].ack = <<"nack">>

\* C8: a failed command (not started, non-zero exit, pipe failure) does not
\* stop the dispatch: a dispatch in which a command failed still performs,
\* in order, every command the message triggers, returns true and is
\* acknowledged.
C8_FailureDoesNotHalt ==
    \A s \in Slots :
        (cb[s].kind # "none" /\ CommandFailed(s)) =>
            /\ cb[s].result # "false"
            /\ Finished(s) =>
                  /\ cb[s].result = "true"
                  /\ Performed(s) = ExpectedCommands(SubOf(s), cb[s].msg)
            /\ (cb[s].kind = "live" /\ cb[s].pc = "done") => cb[s].ack = <<"ack">>

\* C8 witness: a finished, acknowledged dispatch in which a command failed to
\* start, another exited non-zero, and a command ran after both.
C8_Witness ==
    \E s \in Slots :
        /\ cb[s].pc = "done"
        /\ cb[s].ack = <<"ack">>
        /\ \E i, j, k \in 1..Len(cb[s].trace) :
              /\ i < k /\ j < k
              /\ cb[s].trace[i].e = "spawnerr"
              /\ cb[s].trace[j].e = "exit" /\ ~cb[s].trace[j].ok
              /\ cb[s].trace[k].e = "start"

\* C9: when the write of the data file fails, receiveMessage returns false at
\* once: no node is evaluated, no command is performed, and a live message is
\* negatively acknowledged.
C9_WriteFailureAborts ==
    \A s \in Slots :
        (cb[s].kind # "none" /\ WriteFailed(s)) =>
            /\ SubOf(s).PassDataVia = dataViaFile
            /\ cb[s].trace = <<Ev("writefail", <<>>, FALSE)>>
            /\ Finished(s)
            /\ cb[s].result = "false"
            /\ (cb[s].kind = "live" /\ cb[s].pc = "done") => cb[s].ack = <<"nack">>

\* C9 witness: a message that would have triggered commands was negatively
\* acknowledged after the write failed.
C9_Witness ==
    \E s \in Slots :
        /\ WriteFailed(s)
        /\ cb[s].pc = "done"
        /\ cb[s].ack = <<"nack">>
        /\ Len(ExpectedCommands(SubOf(s), cb[s].msg)) >= 2

PipeDispatch(s) == cb[s].kind # "none" /\ UsesPipe(s)

\* In `pipe` mode the steps of one command, read off the events: the process
\* is started before the pipe is written, and the pipe is closed before the
\* process has exited.
PipeOrderAsDocumented(s) ==
    LET tr == cb[s].trace
    IN  \A i \in 1..Len(tr) :
            /\ tr[i].e = "pipe" =>
                  \E j \in 1..(i - 1) : tr[j] = Ev("start", tr[i].n, TRUE)
            /\ tr[i].e = "exit" /\ PipeDispatch(s) =>
                  \E j \in 1..(i - 1) : tr[j] = Ev("close", tr[i].n, TRUE)

\* C11: in `pipe` mode every command is spawned, then the encoded payload is
\* written to its input, then the pipe is closed, then its exit is awaited;
\* and whatever the payload's size, also for a child that reads its input to
\* end-of-file, the command that perform was called for ends and the
\* dispatch returns.
C11_PipeClosedBeforeWait ==
    /\ [](\A s \in Slots : PipeOrderAsDocumented(s))
    /\ \A s \in Slots :
          (PipeDispatch(s) /\ cb[s].pc = "perform") ~> Finished(s)

\* The liveness half of C11 on its own.
C11_PipeDispatchCompletes ==
    \A s \in Slots : (PipeDispatch(s) /\ cb[s].pc = "perform") ~> Finished(s)

\* The safety half of C11 on its own.
C11_PipeOrder == \A s \in Slots : PipeOrderAsDocumented(s)


\* C12: when a subscription of the configuration has test messages, the run
\* is offline from start to end: no client, no check and no topic read, no
\* runner, no callback of the bus and no acknowledgement; the test messages
\* of a subscription go through receiveMessage one at a time in their
\* configured order, each finished (with the commands an ordinary dispatch
\* performs) before the next is taken; a subscription without test messages
\* dispatches nothing; and onStart is past its wait only when every
\* subscription has been gone through.
C12_OfflineTestMode ==
    HasTests(cfg) =>
        /\ ~client
        /\ checked = {}
        /\ \A v \in AllSubs : topic[v] = <<>> /\ runner[v] = "idle"
        /\ wg = 0
        /\ \A s \in Slots :
              /\ cb[s].kind # "live"
              /\ cb[s].ack = <<>>
              /\ cb[s].kind = "test" =>
                    /\ Len(SubOf(s).Tests) > 0
                    /\ cb[s].pc # "done" => cb[s].sub = tcur.sub
        /\ pc = "testwait" =>
              /\ cb[1].msg = cfg[tcur.sub].Tests[tcur.idx]
              /\ cb[1].pc # "done"
        /\ (pc = "test" /\ tcur.idx > 1) =>
              /\ cb[1].msg = cfg[tcur.sub].Tests[tcur.idx - 1]
              /\ cb[1].pc = "done"
              /\ ~WriteFailed(1) =>
                    Performed(1) = ExpectedCommands(SubOf(1), cb[1].msg)
        /\ pc \in {"wait", "stopped"} =>
              /\ launched = subz
              /\ \A s \in Slots : cb[s].kind = "test" => cb[s].pc = "done"

\* C12 witness: an offline run is over; the last of the two test messages
\* of the only subscription with tests was dispatched and ran a command.
C12_Witness ==
    /\ HasTests(cfg)
    /\ pc = "stopped"
    /\ cb[1].kind = "test"
    /\ cb[1].msg = cfg[cb[1].sub].Tests[2]
    /\ Len(EventsOf(1, {"exit"})) >= 1
    /\ \E v \in subz : Len(cfg[v].Tests) = 0


\* ------------------------------------------------ what substitution should do

\* The value of a base64 character.
B64Value(c) == CHOOSE v \in 0..63 : B64Chars[v + 1] = c

\* Decoding of standard padded base64, four characters at a time.
RECURSIVE DecodeString(_)
DecodeString(c) ==
    IF Len(c) < 4 THEN <<>>
    ELSE LET v1 == B64Value(c[1])
             v2 == B64Value(c[2])
             b1 == v1 * 4 + (v2 \div 16)
         IN  IF c[3] = B64Pad THEN <<b1>>
             ELSE LET v3 == B64Value(c[3])
                      b2 == (v2 % 16) * 16 + (v3 \div 4)
                  IN  IF c[4] = B64Pad THEN <<b1, b2>>
                      ELSE <<b1, b2, (v3 % 4) * 64 + B64Value(c[4])>>
                           \o DecodeString(SubSeq(c, 5, Len(c)))

\* Every occurrence of one name in a text replaced by one value, left to
\* right.
RECURSIVE ReplaceAllOf(_, _, _)
ReplaceAllOf(text, key, val) ==
    IF text = <<>> THEN <<>>
    ELSE IF HasPrefixAt(text, 1, key)
    THEN val \o ReplaceAllOf(SubSeq(text, Len(key) + 1, Len(text)), key, val)
    ELSE <<Head(text)>> \o ReplaceAllOf(Tail(text), key, val)

\* How often a name occurs in a text.
Occurrences(text, key) ==
    Cardinality({i \in 1..Len(text) : HasPrefixAt(text, i, key)})

\* The command of the configuration that argv entry r was built from.
Configured(s, r) ==
    IF r.n = <<>> THEN SubOf(s).Command ELSE SubOf(s).Ifs[r.n].Command

\* The text names none of the other variables.
OnlyPayloadNamed(text) ==
    /\ Occurrences(text, GSUB_SUB) = 0
    /\ Occurrences(text, GSUB_TOPIC) = 0
    /\ Occurrences(text, GSUB_META_) = 0

Hello == <<104, 101, 108, 108, 111>>
HelloEncoded == <<"a", "G", "V", "s", "b", "G", "8", "=">>

\* C15: in mode `var` the value substituted for GSUB_DATA is the base64
\* text of the payload (decoding it gives the payload back; "hello" gives
\* "aGVsbG8="), and in every argument handed to exec each occurrence of
\* GSUB_DATA has been replaced by it; in mode `none` there is no value for
\* GSUB_DATA and every occurrence stays in the argument as it was written.
C15_PayloadPlaceholder ==
    \A s \in Slots :
        (cb[s].kind # "none" /\ cb[s].pc \notin {"recv"} /\ ~WriteFailed(s)) =>
            LET via == SubOf(s).PassDataVia
                data == cb[s].msg.Data
                reps == cb[s].replaces
            IN  /\ via = dataViaVar =>
                      /\ GSUB_DATA \in DOMAIN reps
                      /\ DecodeString(reps[GSUB_DATA]) = data
                      /\ Len(reps[GSUB_DATA]) = 4 * ((Len(data) + 2) \div 3)
                      /\ data = Hello => reps[GSUB_DATA] = HelloEncoded
                /\ via = dataViaNone => GSUB_DATA \notin DOMAIN reps
                /\ \A i \in 1..Len(cb[s].argv) :
                      LET r == cb[s].argv[i]
                          sc == Configured(s, r)
                      IN  \A k \in 2..Len(sc) :
                            /\ via = dataViaVar =>
                                  /\ Occurrences(r.args[k], GSUB_DATA) = 0
                                  /\ OnlyPayloadNamed(sc[k]) =>
                                        r.args[k] = ReplaceAllOf(sc[k], GSUB_DATA,
                                                                 reps[GSUB_DATA])
                            /\ via = dataViaNone =>
                                  /\ Occurrences(r.args[k], GSUB_DATA)
                                        = Occurrences(sc[k], GSUB_DATA)
                                  /\ OnlyPayloadNamed(sc[k]) => r.args[k] = sc[k]

\* C15 witness: in mode `var` a command was run for the payload "hello" with
\* the argument xGSUB_DATAGSUB_DATA turned into x, aGVsbG8=, aGVsbG8=.
C15_Witness ==
    \E s \in Slots :
        /\ Completed(s)
        /\ SubOf(s).PassDataVia = dataViaVar
        /\ cb[s].msg.Data = Hello
        /\ \E i \in 1..Len(cb[s].argv) :
              /\ Len(cb[s].argv[i].args) >= 3
              /\ cb[s].argv[i].args[2] = HelloEncoded
              /\ cb[s].argv[i].args[3] = <<"x">> \o HelloEncoded \o HelloEncoded
              /\ \E j \in 1..Len(cb[s].trace) :
                    cb[s].trace[j] = Ev("exit", cb[s].argv[i].n, TRUE)

\* The names of a context replaced one after the other, each everywhere.
RECURSIVE OneByOne(_, _, _, _)
OneByOne(text, reps, order, i) ==
    IF i > Len(order) THEN text
    ELSE OneByOne(ReplaceAllOf(text, order[i], reps[order[i]]), reps, order,
                  i + 1)

\* The context of the dispatch in slot s holds the subscription, its topic,
\* one entry per attribute and the payload entry of the mode, nothing else.
ContextAsBuilt(s) ==
    LET reps == cb[s].replaces
        attrs == cb[s].msg.Attributes
        via == SubOf(s).PassDataVia
        payload == IF via \in {dataViaFile, dataViaVar} /\ ~WriteFailed(s)
                   THEN {GSUB_DATA} ELSE {}
    IN  /\ DOMAIN reps
              = {GSUB_SUB, GSUB_TOPIC} \cup {MetaName(k) : k \in DOMAIN attrs}
                    \cup payload
        /\ reps[GSUB_SUB] = SubName(cb[s].sub)
        /\ reps[GSUB_TOPIC] = topic[cb[s].sub]
        /\ \A k \in DOMAIN attrs : reps[MetaName(k)] = attrs[k]
        /\ via = dataViaFile /\ ~WriteFailed(s)
              => reps[GSUB_DATA] = DataFilePath(cb[s].msg.ID)
        /\ via = dataViaVar => DecodeString(reps[GSUB_DATA]) = cb[s].msg.Data

\* Every command run for the dispatch in slot s got its executable as
\* configured (trimmed) and each further argument with the names of the one
\* context replaced.
ArgumentsFromContext(s) ==
    \A i \in 1..Len(cb[s].argv) :
        LET r == cb[s].argv[i]
            sc == Configured(s, r)
            reps == cb[s].replaces
        IN  /\ Len(r.args) = Len(sc)
            /\ r.args[1] = TrimSpace(sc[1])
            /\ \A k \in 2..Len(sc) :
                  r.args[k] = OneByOne(sc[k], reps, SomeOrder(DOMAIN reps), 1)

InDispatch(s) == cb[s].kind # "none" /\ cb[s].pc # "recv"

\* C20: the substitution context of a message is built once, holds the
\* subscription name, the topic, the attribute entries and the payload
\* entry, and no later step of the dispatch changes it; every command run
\* for the message has each argument after the first substituted from that
\* context, and its executable is the configured first element, not
\* substituted even when it spells a variable.
C20_OneContextPerMessage ==
    /\ [](\A s \in Slots :
             InDispatch(s) => ContextAsBuilt(s) /\ ArgumentsFromContext(s))
    /\ [][\A s \in Slots :
             InDispatch(s) /\ cb'[s].kind # "none" /\ cb'[s].pc # "recv"
                 => cb'[s].replaces = cb[s].replaces]_vars

\* C20 witness: a message set off the root command and two rule commands;
\* the rule command whose executable is spelled GSUB_SUB was run under that
\* name with its argument replaced by the subscription name, and the root
\* and the inner rule command got the same arguments.
C20_Witness ==
    \E s \in Slots :
        /\ Completed(s)
        /\ Len(cb[s].argv) = 3
        /\ cb[s].argv[1].n = <<>>
        /\ cb[s].argv[2].args = <<GSUB_SUB, SubName(cb[s].sub)>>
        /\ cb[s].argv[3].args = cb[s].argv[1].args
        /\ Len(cb[s].argv[1].args) = 5
        /\ cb[s].argv[1].args[4]
              = SubName(cb[s].sub) \o <<"/">> \o topic[cb[s].sub]

\* A command that is no command: no elements, or a first element of
\* nothing but blanks.
NoOp(sc) == sc = <<>> \/ \A i \in 1..Len(sc[1]) : sc[1][i] = " "

\* The command configured at node n of the subscription (<<>>: the root
\* command).
ConfiguredAt(s, n) ==
    IF n = <<>> THEN SubOf(s).Command ELSE SubOf(s).Ifs[n].Command

PerformKinds == {"pipe", "pipeerr", "start", "spawnerr", "exit", "close"}

\* C19: a no-op command never gets as far as a process: no pipe, start,
\* exit or error event and no argument list handed to exec belongs to a
\* node (or the root) whose command is a no-op, and perform is never inside
\* such a command; and when the rule loop is over, every child of a matched
\* node with a no-op command has been evaluated.
C19_NoOpCommand ==
    \A s \in Slots :
        cb[s].kind # "none" =>
            /\ \A i \in 1..Len(cb[s].trace) :
                  cb[s].trace[i].e \in PerformKinds
                      => ~NoOp(ConfiguredAt(s, cb[s].trace[i].n))
            /\ \A i \in 1..Len(cb[s].argv) :
                  ~NoOp(ConfiguredAt(s, cb[s].argv[i].n))
            /\ cb[s].pc \in {"perform", "pipewrite", "wait"}
                  => ~NoOp(ConfiguredAt(s, cb[s].cur))
            /\ Completed(s) =>
                  \A p \in DOMAIN SubOf(s).Ifs :
                      (p \in Triggered(s) /\ NoOp(SubOf(s).Ifs[p].Command))
                      => \A q \in DOMAIN SubOf(s).Ifs :
                            (Len(q) = Len(p) + 1 /\ Parent(q) = p)
                                => q \in Evaluated(s)

\* C19 witness: a finished dispatch whose root command is blank and ran
\* nothing, in which a node with a no-op command matched, ran nothing, and
\* a child of it was evaluated and its command run.
C19_Witness ==
    \E s \in Slots :
        /\ Completed(s)
        /\ SubOf(s).Command # <<>>
        /\ NoOp(SubOf(s).Command)
        /\ <<>> \notin NodesOf(s, PerformKinds)
        /\ \E p \in Triggered(s) :
              /\ NoOp(SubOf(s).Ifs[p].Command)
              /\ p \notin NodesOf(s, PerformKinds)
              /\ \E q \in NodesOf(s, {"exit"}) : Len(q) > 1 /\ Parent(q) = p

\* Every configured subscription has been found on the bus and its topic
\* read.
AllConfirmed ==
    /\ subz = DOMAIN cfg
    /\ checked = subz
    /\ \A v \in subz : topic[v] = TopicOf(v)

SomeRunnerStarted ==
    \/ \E v \in AllSubs : runner[v] # "idle"
    \/ \E v \in AllSubs : cancellation[v]
    \/ launched # {}
    \/ wg # 0

LiveDispatch(s) == cb[s].kind = "live"

\* C13: in live mode a runner is started, and a message dispatched, only
\* when every configured subscription has been confirmed and has its topic;
\* the checks are left either for the launch loop with all of them passed,
\* or for the fatal exit, and after a fatal exit no runner was started and
\* no message dispatched for any subscription; in every live dispatch the
\* value substituted for GSUB_TOPIC is the topic read for its subscription,
\* in the context and in the arguments handed to exec.
C13_ConfirmedBeforeListening ==
    /\ []((~testing /\ (SomeRunnerStarted \/ \E s \in Slots : LiveDispatch(s)))
            => AllConfirmed)
    /\ [](pc = "fatal"
            => ~SomeRunnerStarted /\ \A s \in Slots : cb[s].kind = "none")
    /\ [][pc = "check" /\ pc' # "check"
            => \/ pc' = "fatal"
               \/ pc' = "launch" /\ AllConfirmed']_vars
    /\ [](\A s \in Slots :
            (LiveDispatch(s) /\ cb[s].pc # "recv") =>
                /\ cb[s].replaces[GSUB_TOPIC] = TopicOf(cb[s].sub)
                /\ \A i \in 1..Len(cb[s].argv) :
                      ConfiguredAt(s, cb[s].argv[i].n) = CmdTopic
                          => cb[s].argv[i].args[2] = TopicOf(cb[s].sub))

\* C13 witness: with two subscriptions confirmed and both runners
\* listening, a message of the second was dispatched and its command got
\* that subscription's topic as its argument.
C13_Witness ==
    /\ Cardinality(subz) >= 2
    /\ AllConfirmed
    /\ \A v \in subz : runner[v] = "recv"
    /\ \E s \in Slots :
          /\ LiveDispatch(s)
          /\ Completed(s)
          /\ cb[s].sub = 2
          /\ Len(cb[s].argv) = 1
          /\ cb[s].argv[1].args = <<StrSh, TopicOf(2)>>

\* C13, the fatal case: the check of one subscription failed after another
\* had passed, and the process is gone with nothing started.
C13_WitnessFatal ==
    /\ pc = "fatal"
    /\ client
    /\ checked # {}
    /\ checked # subz
    /\ ~SomeRunnerStarted

\* The entries of the document that are not disabled, by position.
Enabled == {k \in 1..Len(parse.entries) : ~parse.entries[k].Disable}

\* The length of a name in characters.
CharLen(name) == Len(name)

NameOutOfBounds(name) == CharLen(name) < 3 \/ CharLen(name) > 255

\* The document has an enabled entry whose name, blanks at its ends
\* dropped, is too short or too long, or two enabled entries of one name.
HasBadName ==
    \E k \in Enabled : NameOutOfBounds(TrimSpace(parse.entries[k].Name))
HasDuplicate ==
    \E k, l \in Enabled :
        k # l /\ TrimSpace(parse.entries[k].Name) = TrimSpace(parse.entries[l].Name)

ConfigLoaded == parse.pc = "loaded"

\* C14: in a loaded configuration every subscription name is 3 to 255
\* characters long and no two entries share a name (there are as many
\* subscriptions as enabled entries); a document with a duplicate name or
\* with a name too short or too long is never loaded, and the global
\* subscription set stays empty for it whatever parseSubsConfig had
\* collected.
C14_NamesUniqueAndBounded ==
    /\ ConfigLoaded =>
          /\ \A name \in parse.global : ~NameOutOfBounds(name)
          /\ Cardinality(parse.global) = Cardinality(Enabled)
    /\ (HasBadName \/ HasDuplicate) => ~ConfigLoaded /\ parse.global = {}

\* C14 with the length read as len() reads it, in bytes.
C14_NamesBoundedInBytes ==
    /\ ConfigLoaded =>
          /\ \A name \in parse.global :
                ByteLen(name) >= MinNameLen /\ ByteLen(name) <= MaxNameLen
          /\ Cardinality(parse.global) = Cardinality(Enabled)
    /\ (HasDuplicate
          \/ \E k \in Enabled : NameInvalid(TrimSpace(parse.entries[k].Name)))
         => ~ConfigLoaded /\ parse.global = {}

\* C14: a document was refused for its second name after the first had
\* been put into the map, and the process is gone.
C14_RefusedWithPartialMap ==
    /\ parse.pc = "failed"
    /\ parse.err \in {"invalid name", "duplicate"}
    /\ parse.subz # {}
    /\ parse.global = {}
    /\ pc = "fatal"

\* C14: a configuration is loaded with a subscription whose name has two
\* characters.
C14_TwoCharacterNameLoaded ==
    /\ ConfigLoaded
    /\ \E name \in parse.global : CharLen(name) = 2

\* Shutdown reached the subscription of the call in slot s while the call
\* was in progress.
CancelledInDispatch(s) == cb[s].kind # "none" /\ cb[s].ctxDone # <<>>

\* C16: a dispatch that was in progress when its subscription was cancelled
\* goes on as if nothing had happened: the commands it performs are a prefix
\* of the list the message triggers and, once it has returned without a
\* write failure, the whole list in order, every started command having
\* exited; it returns true unless the data file could not be written; and a
\* live message gets the one decision that follows from that result.
C16_CancellationIsCooperative ==
    \A s \in Slots :
        CancelledInDispatch(s) =>
            LET want == ExpectedCommands(SubOf(s), cb[s].msg)
            IN  /\ IsPrefix(Performed(s), want)
                /\ Finished(s) =>
                      /\ cb[s].result = IF WriteFailed(s) THEN "false" ELSE "true"
                      /\ ~WriteFailed(s) => Performed(s) = want
                      /\ Len(EventsOf(s, {"start"})) = Len(EventsOf(s, {"exit"}))
                /\ cb[s].pc # "done" => cb[s].ack = <<>>
                /\ (cb[s].kind = "live" /\ cb[s].pc = "done") =>
                      cb[s].ack = <<IF WriteFailed(s) THEN "nack" ELSE "ack">>

\* C16 witness: the subscription was cancelled before the message's first
\* command had been started; both commands of the message were then started
\* and ran to their exit, and the message was acknowledged.
C16_Witness ==
    \E s \in Slots :
        /\ cb[s].kind = "live"
        /\ cb[s].pc = "done"
        /\ cb[s].ctxDone = <<0>>
        /\ cancelled[cb[s].sub]
        /\ Len(Performed(s)) = 2
        /\ Len(EventsOf(s, {"exit"})) = 2
        /\ cb[s].ack = <<"ack">>

\* C16 witness: the same for a cancel between the two commands.
C16_WitnessBetween ==
    \E s \in Slots :
        /\ cb[s].kind = "live"
        /\ cb[s].pc = "done"
        /\ Len(cb[s].ctxDone) = 1
        /\ cb[s].ctxDone[1] >= 1
        /\ Len(EventsOf(s, {"exit"})) = 2
        /\ cb[s].trace[cb[s].ctxDone[1]].e = "exit"
        /\ cb[s].ack = <<"ack">>

\* The receive loop of runner v has returned.
LoopReturned(v) == runner[v] \in {"unsub", "stopping", "done"}

\* Runner w has been told to stop, or has left its receive loop by itself.
StoppedOrCancelled(w) ==
    cancelled[w] \/ runner[w] \in {"failing", "unsub", "stopping", "done"}

\* A subscription is cancelled only by a step of the broadcast, the
\* broadcast runs only inside onStop, and onStop is called by the signal
\* goroutine, by the service's Stop, or by a runner whose receive loop has
\* returned.
C17_OnlyThroughShutdown ==
    /\ [][\A v \in AllSubs :
             (cancelled'[v] /\ ~cancelled[v])
                 => \E c \in Callers : stopper[c] = "exec" /\ once = "running"]_vars
    /\ [](\A v \in AllSubs :
             stopper[RunCaller(v)] # "none" => LoopReturned(v))
    /\ [][\A v \in AllSubs :
             (runner[v] = "unsub" /\ runner'[v] # "unsub")
                 => stopper'[RunCaller(v)] = "enter"]_vars

\* Once the receive loop of a runner has returned, every subscription's
\* runner is cancelled (or has left its loop by itself), and onStart comes
\* back from its wait.
C17_EveryOtherRunnerCancelled ==
    \A v \in AllSubs :
        LoopReturned(v) ~> (\A w \in subz : StoppedOrCancelled(w))

\* Once the receive loop of a runner has returned, onStart comes back from
\* its wait.
C17_ProcessStops ==
    \A v \in AllSubs : LoopReturned(v) ~> pc = "stopped"

\* C17: runners are cancelled only through onStop, which only the signal,
\* the service's Stop and a returned receive loop call; and whenever the
\* receive loop of one runner returns, onStop is called, every other runner
\* is cancelled and the process stops.
C17_OneRunnerStopsAll ==
    C17_OnlyThroughShutdown /\ C17_EveryOtherRunnerCancelled /\ C17_ProcessStops

\* C17: the receive loop of one runner has returned and its onStop is
\* through, the broadcast is over, and another runner, started after it,
\* listens uncancelled.
C17_RunnerLeftListening ==
    \E v, w \in subz :
        /\ runner[v] = "done"
        /\ once = "done"
        /\ runner[w] = "recv"
        /\ ~cancelled[w]
        /\ pc = "wait"

\* The call in slot s takes a step of its own (a cancel only marks it).
StepOf(s) ==
    /\ cb[s].kind # "none"
    /\ cb'[s].pc # cb[s].pc \/ cb'[s].trace # cb[s].trace

\* The call in slot s has met an error of its own message.
MessageError(s) == cb[s].kind # "none" /\ (WriteFailed(s) \/ CommandFailed(s))

\* The outcome the message in slot s has by itself.
OwnOutcome(s) ==
    LET want == ExpectedCommands(SubOf(s), cb[s].msg)
    IN  /\ IsPrefix(Performed(s), want)
        /\ (Finished(s) /\ ~WriteFailed(s)) => Performed(s) = want
        /\ WriteFailed(s) => Performed(s) = <<>>
        /\ \A i \in 1..Len(cb[s].argv) :
              cb[s].argv[i].args
                  = [k \in 1..Len(ConfiguredAt(s, cb[s].argv[i].n)) |->
                        IF ConfiguredAt(s, cb[s].argv[i].n)[k] = GSUB_TOPIC
                        THEN TopicOf(cb[s].sub)
                        ELSE ConfiguredAt(s, cb[s].argv[i].n)[k]]
        /\ cb[s].pc # "done" => cb[s].ack = <<>>
        /\ cb[s].pc = "done" =>
              cb[s].ack = <<IF WriteFailed(s) THEN "nack" ELSE "ack">>

\* C18: a step of one message's call, the failing ones included, leaves
\* every lifecycle variable (the runners, the cancellations, the stop-once,
\* the callers of onStop, the wait counter) and every other call as they
\* were; and beside a message that met a write failure or a failed command,
\* every other message, of the same or of another subscription, performs
\* the commands it triggers by itself and gets the decision that follows
\* from its own write alone.
C18_ErrorsStayWithTheirMessage ==
    /\ [][\A s \in DOMAIN cb :
             StepOf(s) =>
                 /\ UNCHANGED lifeVars
                 /\ \A o \in DOMAIN cb \ {s} : cb'[o] = cb[o]]_vars
    /\ [](\A s, o \in DOMAIN cb :
             (s # o /\ MessageError(s) /\ cb[o].kind # "none") => OwnOutcome(o))

\* C18 witness: of two messages of one subscription the first was refused
\* for a failed write and negatively acknowledged, the second ran both its
\* commands and was acknowledged; both runners still listen and nobody has
\* called onStop.
C18_Witness ==
    /\ cb[1].kind = "live" /\ cb[2].kind = "live"
    /\ cb[1].sub = cb[2].sub
    /\ cb[1].pc = "done" /\ cb[1].ack = <<"nack">>
    /\ cb[2].pc = "done" /\ cb[2].ack = <<"ack">>
    /\ Len(EventsOf(2, {"exit"})) = 2
    /\ \A v \in AllSubs : runner[v] = "recv" /\ ~cancelled[v]
    /\ \A c \in Callers : stopper[c] = "none"
    /\ once = "fresh"

\* C18 witness: the same beside a message of the other subscription whose
\* command could not be started.
C18_WitnessCommandFailed ==
    /\ cb[1].kind = "live" /\ cb[2].kind = "live"
    /\ cb[1].sub # cb[2].sub
    /\ cb[2].pc = "done" /\ cb[2].ack = <<"ack">>
    /\ \E i \in 1..Len(cb[2].trace) : cb[2].trace[i].e = "spawnerr"
    /\ cb[1].pc = "done" /\ cb[1].ack = <<"ack">>
    /\ Len(EventsOf(1, {"exit"})) = 2
    /\ \A v \in AllSubs : runner[v] = "recv" /\ ~cancelled[v]
    /\ once = "fresh"

\* A command of the call in slot s is executing.
Executing(s) == cb[s].kind # "none" /\ cb[s].pc = "wait"

\* The file whose path the call in slot s substitutes for GSUB_DATA is
\* there and holds the payload of the call's message.
DataFileIntact(s) ==
    /\ GSUB_DATA \in DOMAIN cb[s].replaces
    /\ cb[s].replaces[GSUB_DATA] = DataFilePath(cb[s].msg.ID)
    /\ cb[s].replaces[GSUB_DATA] \in DOMAIN files
    /\ files[cb[s].replaces[GSUB_DATA]] = cb[s].msg.Data

\* Two calls in progress carry the same message identifier.
SameIdInFlight ==
    \E s, o \in DOMAIN cb :
        /\ s # o
        /\ cb[s].kind # "none" /\ cb[o].kind # "none"
        /\ cb[s].msg.ID = cb[o].msg.ID

\* C21: in `file` mode, whenever a command of a message is executing, the
\* file at the path substituted for GSUB_DATA exists and holds exactly the
\* payload of that message, whatever other calls are in progress, two
\* calls for one message identifier included.
C21_DataFileWhileExecuting ==
    \A s \in DOMAIN cb :
        (Executing(s) /\ SubOf(s).PassDataVia = dataViaFile) => DataFileIntact(s)

\* C21 for calls whose message identifiers differ.
C21_DistinctIdentifiers ==
    \A s \in DOMAIN cb :
        (Executing(s) /\ SubOf(s).PassDataVia = dataViaFile /\ ~SameIdInFlight)
            => DataFileIntact(s)

\* C21: a command is executing on a data file that another call, for the
\* same message identifier, has removed on its return.
C21_FileRemovedUnderCommand ==
    \E s, o \in DOMAIN cb :
        /\ s # o
        /\ Executing(s)
        /\ cb[s].wrote
        /\ cb[o].msg.ID = cb[s].msg.ID
        /\ cb[o].wrote /\ Finished(o)
        /\ DataFilePath(cb[s].msg.ID) \notin DOMAIN files

\* C21: a command is executing on a data file that another call's failed
\* write has left empty.
C21_FileEmptiedUnderCommand ==
    \E s, o \in DOMAIN cb :
        /\ s # o
        /\ Executing(s)
        /\ cb[o].msg.ID = cb[s].msg.ID
        /\ WriteFailed(o)
        /\ DataFilePath(cb[s].msg.ID) \in DOMAIN files
        /\ files[DataFilePath(cb[s].msg.ID)] = <<>>

\* The argument lists the call in slot s has handed to exec.
ArgLists(s) == [i \in 1..Len(cb[s].argv) |-> cb[s].argv[i].args]

\* The calls in slots s and o are two executions for the same subscription,
\* message and command, each having run its command.
SameExecution(s, o) ==
    /\ s # o
    /\ cb[s].kind # "none" /\ cb[o].kind # "none"
    /\ cb[s].sub = cb[o].sub
    /\ cb[s].msg = cb[o].msg
    /\ Len(cb[s].argv) = 1 /\ Len(cb[o].argv) = 1

\* C22: two executions for the same subscription, message and command hand
\* the same argument list to the process they start, whatever order the
\* attribute map and the substitution map were ranged over; a name that
\* begins another (attributes a and ab) and two keys of one name (my key
\* and my_key) included.
C22_SubstitutionDeterministic ==
    \A s, o \in DOMAIN cb : SameExecution(s, o) => ArgLists(s) = ArgLists(o)

\* The attributes of the message give pairwise different names, none of
\* which begins another.
PlainNames(m) ==
    /\ ~NameClash(DOMAIN m.Attributes)
    /\ ~PrefixClash({MetaName(k) : k \in DOMAIN m.Attributes})

\* C22 for messages whose attribute names neither coincide nor begin one
\* another.
C22_PlainNamesDeterministic ==
    \A s, o \in DOMAIN cb :
        (SameExecution(s, o) /\ PlainNames(cb[s].msg))
            => (ArgLists(s) = ArgLists(o) /\ cb[s].replaces = cb[o].replaces)

\* C22: with the attributes a and ab, one execution replaced GSUB_META_ab by
\* the value of ab and the other by the value of a followed by the letter b.
C22_PrefixDiffers ==
    \E s, o \in DOMAIN cb :
        /\ SameExecution(s, o)
        /\ DOMAIN cb[s].msg.Attributes = {"a", "ab"}
        /\ cb[s].replaces = cb[o].replaces
        /\ cb[s].argv[1].args[2] = cb[s].msg.Attributes["ab"]
        /\ cb[o].argv[1].args[2] = cb[s].msg.Attributes["a"] \o <<"b">>
        /\ cb[s].argv[1].args[2] # cb[o].argv[1].args[2]

\* C22: with the attributes `my key` and `my_key`, one execution replaced
\* GSUB_META_my_key by the value of the one and the other by the value of
\* the other.
C22_SameNameDiffers ==
    \E s, o \in DOMAIN cb :
        /\ SameExecution(s, o)
        /\ DOMAIN cb[s].msg.Attributes = {"my key", "my_key"}
        /\ cb[s].argv[1].args[3] = cb[s].msg.Attributes["my key"]
        /\ cb[o].argv[1].args[3] = cb[s].msg.Attributes["my_key"]
        /\ cb[s].argv[1].args[3] # cb[o].argv[1].args[3]

====
